---- MODULE Spec2Model ----
(***************************************************************************)
(* The tool RPC transport of the customer-service demo: the stdio          *)
(* JSON-RPC server loop (mcp_server.py), the query catalog it dispatches   *)
(* to (db_tools.py over db.py) and the process client (mcp_client.py).     *)
(*                                                                         *)
(* Encoding of Python / JSON values:                                       *)
(*   - free text that SQL matches with LIKE (customer name, ticket issue)  *)
(*     is a sequence of one-character strings; other text is a string;     *)
(*   - None is the string "None" for text parameters and the number NoId   *)
(*     for a request identifier;                                           *)
(*   - an Optional row is a sequence of length 0 or 1;                     *)
(*   - a line on stdout names in has which of the fields result and error  *)
(*     its JSON object carries;                                            *)
(*   - a JSON object returned by a tool is a record naming its top-level   *)
(*     keys (keys), the success flag, the rows under its payload key and   *)
(*     its error text.                                                     *)
(***************************************************************************)
EXTENDS Integers, Sequences, FiniteSets, TLC

\* ------------------------------------------------------------------------
\* Bounds of the model
\* ------------------------------------------------------------------------
MaxLines   == 2   \* lines fed to the server's stdin in the server specification
MaxTickets == 2   \* rows the tickets table may hold
MaxClock   == 2   \* largest value of CURRENT_TIMESTAMP
MaxCalls   == 2   \* call_tool invocations started, over all threads
NumThreads == 2   \* threads sharing one MCPProcessClient

\* ------------------------------------------------------------------------
\* Text
\* ------------------------------------------------------------------------
Lower(c) ==
    CASE c = "A" -> "a" [] c = "B" -> "b" [] c = "C" -> "c" [] c = "I" -> "i"
      [] c = "P" -> "p" [] c = "R" -> "r" [] c = "E" -> "e" [] c = "M" -> "m"
      [] c = "U" -> "u" [] OTHER -> c

\* (variant) LIKE comparing letters exactly
LikeExact(text, kw) ==
    \E i \in 1..(Len(text) - Len(kw) + 1) :
        \A j \in 1..Len(kw) : text[i + j - 1] = kw[j]

\* SQLite's  text LIKE '%kw%'  (case-insensitive on ASCII letters)
Like(text, kw) ==
    \E i \in 1..(Len(text) - Len(kw) + 1) :
        \A j \in 1..Len(kw) : Lower(text[i + j - 1]) = Lower(kw[j])

NameAl      == <<"A", "l">>
NamePremium == <<"P", "a", "t", " ", "P", "r", "e", "m", "i", "u", "m">>
IssueCharge == <<"d", "b", "l", " ", "c", "h", "a", "r", "g", "e">>
IssueLogin  == <<"l", "o", "g", "i", "n">>
NameLower   == <<"p", "a", "t", " ", "p", "r", "e", "m", "i", "u", "m">>
IssueUpper  == <<"C", "h", "a", "r", "g", "e">>

KwPremium   == <<"P", "r", "e", "m", "i", "u", "m">>
keywords    == { <<"b", "i", "l", "l", "i", "n", "g">>,
                 <<"c", "h", "a", "r", "g", "e">>,
                 <<"p", "a", "y", "m", "e", "n", "t">>,
                 <<"i", "n", "v", "o", "i", "c", "e">> }

\* ------------------------------------------------------------------------
\* Store (db.py): the customers and tickets tables
\* ------------------------------------------------------------------------
SeedStore ==
    [ customers |->
        (1 :> [id |-> 1, name |-> NameAl, email |-> "al@x", phone |-> "555",
               status |-> "active", created_at |-> 0, updated_at |-> 0]) @@
        (2 :> [id |-> 2, name |-> NamePremium, email |-> "pat@x", phone |-> "556",
               status |-> "disabled", created_at |-> 1, updated_at |-> 1]),
      tickets |->
        << [id |-> 1, customer_id |-> 1, issue |-> IssueCharge,
            status |-> "open", priority |-> "high", created_at |-> 1] >> ]

RECURSIVE Perms(_)
Perms(S) ==
    IF S = {} THEN { <<>> }
    ELSE UNION { { <<x>> \o p : p \in Perms(S \ {x}) } : x \in S }

Range(s) == { s[i] : i \in 1..Len(s) }

\* (variant) priorities ranked by severity: high above medium above low
SeverityRank(p) == CASE p = "high" -> 3 [] p = "medium" -> 2 [] p = "low" -> 1 [] OTHER -> 0

\* Byte order of the priority strings this model uses (ORDER BY priority)
LexRank(p) == CASE p = "high" -> 1 [] p = "low" -> 2 [] p = "medium" -> 3 [] OTHER -> 0

\* The result orders SQL may produce for  ORDER BY created_at DESC
OrderByCreatedDesc(rows) ==
    { p \in Perms(rows) :
        \A i, j \in 1..Len(p) : i < j => p[i].created_at >= p[j].created_at }

\* ... for  ORDER BY priority DESC, created_at DESC
OrderByPriorityCreatedDesc(rows) ==
    { p \in Perms(rows) :
        \A i, j \in 1..Len(p) : i < j =>
            \/ LexRank(p[i].priority) > LexRank(p[j].priority)
            \/ /\ p[i].priority = p[j].priority
               /\ p[i].created_at >= p[j].created_at }

\* ... for  ORDER BY id
OrderById(rows) ==
    { p \in Perms(rows) : \A i, j \in 1..Len(p) : i < j => p[i].id < p[j].id }

\* (variant) LIMIT lets one row too many through
LimitInclusive(s, n) == IF n < 0 \/ n >= Len(s) THEN s ELSE SubSeq(s, 1, n + 1)

\* LIMIT n  (a negative n is no limit in SQLite)
Limit(s, n) == IF n < 0 \/ n >= Len(s) THEN s ELSE SubSeq(s, 1, n)

CustomerRows(st) == { st.customers[c] : c \in DOMAIN st.customers }

db_get_customer(st, customer_id) ==
    IF customer_id \in DOMAIN st.customers
    THEN << st.customers[customer_id] >> ELSE << >>

db_list_customers(st, status, limit) ==
    LET rows == IF status # "None" /\ status # ""
                THEN { r \in CustomerRows(st) : r.status = status }
                ELSE CustomerRows(st)
    IN  { Limit(p, limit) : p \in OrderByCreatedDesc(rows) }

\* (variant) every column may be updated
any_field == {"id", "name", "email", "phone", "status", "created_at", "updated_at"}

valid_fields == {"name", "email", "phone", "status"}

\* (variant) the UPDATE runs also when no whitelisted field is given
db_update_rows_touch(st, customer_id, data, now) ==
    LET updates == [k \in (DOMAIN data) \cap valid_fields |-> data[k]]
    IN  IF customer_id \notin DOMAIN st.customers
        THEN st
        ELSE [st EXCEPT !.customers[customer_id] =
                [f \in DOMAIN @ |->
                    IF f \in DOMAIN updates THEN updates[f]
                    ELSE IF f = "updated_at" THEN now ELSE @[f]]]

\* (variant) an upsert: an identifier no customer has gets a new row
db_update_rows_upsert(st, customer_id, data, now) ==
    LET updates == [k \in (DOMAIN data) \cap valid_fields |-> data[k]]
        blank   == [id |-> customer_id, name |-> << >>, email |-> "", phone |-> "",
                    status |-> "active", created_at |-> now, updated_at |-> now]
    IN  IF DOMAIN data = {} \/ DOMAIN updates = {}
        THEN st
        ELSE IF customer_id \notin DOMAIN st.customers
        THEN [st EXCEPT !.customers =
                 @ @@ (customer_id :> [f \in DOMAIN blank |->
                          IF f \in DOMAIN updates THEN updates[f] ELSE blank[f]])]
        ELSE [st EXCEPT !.customers[customer_id] =
                [f \in DOMAIN @ |->
                    IF f \in DOMAIN updates THEN updates[f]
                    ELSE IF f = "updated_at" THEN now ELSE @[f]]]

\* (variant) the update stamps created_at as well
db_update_rows_restamp(st, customer_id, data, now) ==
    LET updates == [k \in (DOMAIN data) \cap valid_fields |-> data[k]]
    IN  IF DOMAIN data = {} \/ DOMAIN updates = {} \/ customer_id \notin DOMAIN st.customers
        THEN st
        ELSE [st EXCEPT !.customers[customer_id] =
                [f \in DOMAIN @ |->
                    IF f \in DOMAIN updates THEN updates[f]
                    ELSE IF f \in {"updated_at", "created_at"} THEN now ELSE @[f]]]

\* UPDATE customers SET ..., updated_at = CURRENT_TIMESTAMP WHERE id = ?
db_update_rows(st, customer_id, data, now) ==
    LET updates == [k \in (DOMAIN data) \cap valid_fields |-> data[k]]
    IN  IF DOMAIN data = {} \/ DOMAIN updates = {} \/ customer_id \notin DOMAIN st.customers
        THEN st
        ELSE [st EXCEPT !.customers[customer_id] =
                [f \in DOMAIN @ |->
                    IF f \in DOMAIN updates THEN updates[f]
                    ELSE IF f = "updated_at" THEN now ELSE @[f]]]

db_update_customer(st, customer_id, data, now) ==
    LET st2 == db_update_rows(st, customer_id, data, now)
    IN  [store |-> st2, record |-> db_get_customer(st2, customer_id)]

\* (variant) INSERT OR REPLACE on the newest row: the insert writes over an
\* existing ticket when there is one
db_create_ticket_replace(st, customer_id, issue, priority, status, now) ==
    LET n   == IF st.tickets = << >> THEN 1 ELSE Len(st.tickets)
        row == [id |-> n, customer_id |-> customer_id,
                issue |-> issue, status |-> status, priority |-> priority,
                created_at |-> now]
    IN  [store |-> [st EXCEPT !.tickets = IF @ = << >> THEN << row >>
                                          ELSE [@ EXCEPT ![n] = row]],
         record |-> row]

\* (variant) the new row takes the identifier of the newest existing row
db_create_ticket_same_id(st, customer_id, issue, priority, status, now) ==
    LET row == [id |-> Len(st.tickets), customer_id |-> customer_id,
                issue |-> issue, status |-> status, priority |-> priority,
                created_at |-> now]
    IN  [store |-> [st EXCEPT !.tickets = Append(@, row)], record |-> row]

\* INSERT INTO tickets ... ; SELECT * FROM tickets WHERE id = lastrowid
db_create_ticket(st, customer_id, issue, priority, status, now) ==
    LET row == [id |-> Len(st.tickets) + 1, customer_id |-> customer_id,
                issue |-> issue, status |-> status, priority |-> priority,
                created_at |-> now]
    IN  [store |-> [st EXCEPT !.tickets = Append(@, row)], record |-> row]

db_get_customer_history(st, customer_id) ==
    OrderByCreatedDesc({ t \in Range(st.tickets) : t.customer_id = customer_id })

db_list_open_tickets(st) ==
    OrderByPriorityCreatedDesc({ t \in Range(st.tickets) : t.status # "resolved" })

\* (variant) SELECT c.* without DISTINCT
KeepAll(s) == s

\* SELECT DISTINCT: a row equal to an earlier one is dropped
RECURSIVE Distinct(_)
Distinct(s) ==
    IF s = << >> THEN << >>
    ELSE LET front == Distinct(SubSeq(s, 1, Len(s) - 1))
         IN  IF s[Len(s)] \in Range(front) THEN front ELSE Append(front, s[Len(s)])

\* customers c JOIN tickets t ON c.id = t.customer_id WHERE c.status =
\* 'active' AND t.status != 'resolved' ORDER BY c.id: the c.* of every
\* joined pair, as many times as the customer has qualifying tickets
RECURSIVE JoinActiveOpen(_, _)
JoinActiveOpen(st, ids) ==
    IF ids = {} THEN << >>
    ELSE LET c == CHOOSE x \in ids : \A y \in ids : x <= y
             matches == { k \in DOMAIN st.tickets :
                            /\ st.tickets[k].customer_id = c
                            /\ st.tickets[k].status # "resolved" }
             own == IF st.customers[c].status = "active"
                    THEN [k \in 1..Cardinality(matches) |-> st.customers[c]]
                    ELSE << >>
         IN  own \o JoinActiveOpen(st, ids \ {c})

db_list_active_customers_with_open_tickets(st) ==
    Distinct(JoinActiveOpen(st, DOMAIN st.customers))

\* ------------------------------------------------------------------------
\* Query catalog (db_tools.py).  Each operation yields the set of pairs
\* (value returned, store afterwards) it can produce; the set has several
\* elements only where SQL leaves the order of tied rows open.
\* fault = k > 0: the k-th connection the call opens fails (store
\* unreachable), fault = 0: the store is reachable.
\* ------------------------------------------------------------------------
Ok(key, rows) == [keys |-> {"success", key}, success |-> TRUE, rows |-> rows, error |-> ""]
Fail(msg)     == [keys |-> {"success", "error"}, success |-> FALSE, rows |-> << >>, error |-> msg]
RowObject(row) == [keys |-> DOMAIN row, success |-> FALSE, rows |-> << row >>, error |-> ""]
NullValue     == [keys |-> {}, success |-> FALSE, rows |-> << >>, error |-> ""]

\* What a catalog operation does: it returns value v, or an exception with
\* message msg leaves it; store is the store afterwards
Ret(v, st)     == [raised |-> FALSE, msg |-> "", value |-> v, store |-> st]
Thrown(msg, st) == [raised |-> TRUE, msg |-> msg, value |-> NullValue, store |-> st]

PremiumLimit == 100
ActiveLimit  == 100

\* (variant) a lookup that finds nothing is reported as a success with a
\* null customer
db_tools_get_customer_null(st, customer_id, fault) ==
    IF fault = 1 THEN { Ret(Fail("Database error in get_customer"), st) }
    ELSE { Ret(Ok("customer", db_get_customer(st, customer_id)), st) }

db_tools_get_customer(st, customer_id, fault) ==
    IF fault = 1 THEN { Ret(Fail("Database error in get_customer"), st) }
    ELSE LET record == db_get_customer(st, customer_id)
         IN  IF record = << >>
             THEN { Ret(Fail("Customer not found."), st) }
             ELSE { Ret(Ok("customer", record), st) }

db_tools_list_customers(st, status, limit, fault) ==
    IF fault = 1 THEN { Ret(Fail("Database error in list_customers"), st) }
    ELSE { Ret(Ok("customers", rows), st) : rows \in db_list_customers(st, status, limit) }

db_tools_list_active_customers(st, fault) ==
    IF fault = 1 THEN { Ret(Fail("Database error in list_active_customers"), st) }
    ELSE { Ret(Ok("customers", rows), st) :
             rows \in db_list_customers(st, "active", ActiveLimit) }

db_tools_list_premium_customers(st, fault) ==
    IF fault = 1 THEN { Ret(Fail("Database error in list_premium_customers"), st) }
    ELSE { Ret(Ok("customers", Limit(p, PremiumLimit)), st) :
             p \in OrderById({ r \in CustomerRows(st) : Like(r.name, KwPremium) }) }

db_tools_update_customer_email(st, customer_id, new_email, fault, now) ==
    IF fault = 1
    THEN { Ret(Fail("Database error in update_customer_email"), st) }
    ELSE LET upd == db_update_customer(st, customer_id, [email |-> new_email], now)
         IN  IF fault = 2
             THEN { Ret(Fail("Database error in update_customer_email"), upd.store) }
             ELSE IF upd.record = << >>
             THEN { Ret(Fail("Customer not found or update failed."), upd.store) }
             ELSE { Ret(Ok("customer", upd.record), upd.store) }

\* (variant) without the try/except: the storage fault leaves the operation
\* as an exception
db_tools_create_ticket_unguarded(st, customer_id, issue, priority, status, fault, now) ==
    IF fault = 1 THEN { Thrown("unable to open database file", st) }
    ELSE LET ins == db_create_ticket(st, customer_id, issue, priority, status, now)
         IN  { Ret(Ok("ticket", << ins.record >>), ins.store) }

db_tools_create_ticket(st, customer_id, issue, priority, status, fault, now) ==
    IF fault = 1 THEN { Ret(Fail("Database error in create_ticket"), st) }
    ELSE LET ins == db_create_ticket(st, customer_id, issue, priority, status, now)
         IN  { Ret(Ok("ticket", << ins.record >>), ins.store) }

db_tools_get_customer_history(st, customer_id, fault) ==
    IF fault = 1 THEN { Ret(Fail("Database error in get_customer_history"), st) }
    ELSE { Ret(Ok("tickets", rows), st) : rows \in db_get_customer_history(st, customer_id) }

\* (variant) the alias returns the customer's latest ticket only
db_tools_customer_ticket_history_latest(st, customer_id, fault) ==
    IF fault = 1 THEN { Ret(Fail("Database error in get_customer_history"), st) }
    ELSE { Ret(Ok("tickets", Limit(rows, 1)), st) :
             rows \in db_get_customer_history(st, customer_id) }

\* return get_customer_history(customer_id=customer_id, db_path=db_path)
db_tools_customer_ticket_history(st, customer_id, fault) ==
    db_tools_get_customer_history(st, customer_id, fault)

\* (variant) the tickets listed are deleted from the table
db_tools_list_open_tickets_consumes(st, fault) ==
    IF fault = 1 THEN { Ret(Fail("Database error in list_open_tickets"), st) }
    ELSE { Ret(Ok("tickets", rows),
               [st EXCEPT !.tickets = SelectSeq(@, LAMBDA t : t.status = "resolved")]) :
             rows \in db_list_open_tickets(st) }

db_tools_list_open_tickets(st, fault) ==
    IF fault = 1 THEN { Ret(Fail("Database error in list_open_tickets"), st) }
    ELSE { Ret(Ok("tickets", rows), st) : rows \in db_list_open_tickets(st) }

\* the same query as db.list_active_customers_with_open_tickets, inline
db_tools_list_active_customers_with_open_tickets(st, fault) ==
    IF fault = 1
    THEN { Ret(Fail("Database error in list_active_customers_with_open_tickets"), st) }
    ELSE { Ret(Ok("customers", Distinct(JoinActiveOpen(st, DOMAIN st.customers))), st) }

\* (variant) ORDER BY created_at DESC alone
db_tools_open_tickets_for_customer_by_age(st, customer_id, fault) ==
    IF fault = 1 THEN { Ret(Fail("Database error in open_tickets_for_customer"), st) }
    ELSE { Ret(Ok("tickets", rows), st) :
             rows \in OrderByCreatedDesc(
                 { t \in Range(st.tickets) :
                     t.customer_id = customer_id /\ t.status # "resolved" }) }

db_tools_open_tickets_for_customer(st, customer_id, fault) ==
    IF fault = 1 THEN { Ret(Fail("Database error in open_tickets_for_customer"), st) }
    ELSE { Ret(Ok("tickets", rows), st) :
             rows \in OrderByPriorityCreatedDesc(
                 { t \in Range(st.tickets) :
                     t.customer_id = customer_id /\ t.status # "resolved" }) }

db_tools_high_priority_tickets_for_customers(st, customer_ids, fault) ==
    IF fault = 1
    THEN { Ret(Fail("Database error in high_priority_tickets_for_customers"), st) }
    ELSE { Ret(Ok("tickets", rows), st) :
             rows \in OrderByCreatedDesc(
                 { t \in Range(st.tickets) :
                     /\ t.status # "resolved"
                     /\ t.priority = "high"
                     /\ (customer_ids # << >> => t.customer_id \in Range(customer_ids)) }) }

db_tools_billing_context_for_customer(st, customer_id, fault) ==
    IF fault = 1
    THEN { Ret(Fail("Database error in billing_context_for_customer"), st) }
    ELSE { Ret(Ok("tickets", rows), st) :
             rows \in OrderByCreatedDesc(
                 { t \in Range(st.tickets) :
                     /\ t.customer_id = customer_id
                     /\ \E kw \in keywords : Like(t.issue, kw) }) }

\* ------------------------------------------------------------------------
\* Tools of the server (mcp_server.py) and the binding of  **params
\* ------------------------------------------------------------------------
NoId == 0          \* req.get("id") of a request without an id: None

\* A request's params: shape "absent" (missing, null or empty: `or {}`),
\* "map" (a JSON object with the keys in keys) or "nonmap" (a non-empty
\* array, a string, a number).  The value of a key outside keys is unused.
P0 == [shape |-> "absent", keys |-> {}, customer_id |-> 0, new_email |-> "",
       status |-> "None", limit |-> 10, customer_ids |-> << >>,
       issue |-> << >>, priority |-> "medium", db_path |-> "None"]

Params(kv) ==
    [f \in DOMAIN P0 |->
        IF f = "shape" THEN "map"
        ELSE IF f = "keys" THEN DOMAIN kv
        ELSE IF f \in DOMAIN kv THEN kv[f] ELSE P0[f]]

tool_map == {"health_check", "get_customer", "list_customers",
             "list_active_customers", "list_premium_customers",
             "open_tickets_for_customer", "high_priority_tickets_for_customers",
             "billing_context_for_customer", "customer_ticket_history",
             "update_customer_email", "create_ticket"}

\* Parameters without a default / with a default, per tool signature
Required(method) ==
    CASE method \in {"get_customer", "open_tickets_for_customer",
                     "billing_context_for_customer", "customer_ticket_history"}
                                                     -> {"customer_id"}
      [] method = "high_priority_tickets_for_customers" -> {"customer_ids"}
      [] method = "update_customer_email"            -> {"customer_id", "new_email"}
      [] method = "create_ticket"                    -> {"customer_id", "issue"}
      [] OTHER                                       -> {}

Optional(method) ==
    CASE method = "list_customers" -> {"status", "limit"}
      [] method = "create_ticket"  -> {"priority", "status", "db_path"}
      [] OTHER                     -> {}

\* The TypeError of  tool_map[method](**params), "" when the call binds
BindError(method, params) ==
    IF params.shape = "nonmap" THEN "argument after ** must be a mapping"
    ELSE IF ~ (params.keys \subseteq Required(method) \cup Optional(method))
    THEN "got an unexpected keyword argument"
    ELSE IF ~ (Required(method) \subseteq params.keys)
    THEN "missing required positional argument"
    ELSE ""

Arg(params, k, default) == IF k \in params.keys THEN params[k] ELSE default

\* Outcome of a tool call: it returns value or raises msg; with the store
\* afterwards and the number of log lines db_tools printed on stdout.
Returned(r, logs) == [raised |-> r.raised, msg |-> r.msg, value |-> r.value,
                      store |-> r.store, logs |-> logs]
Raised(msg, st)   == [raised |-> TRUE, msg |-> msg, value |-> NullValue,
                      store |-> st, logs |-> 0]

health_check(st) ==
    { Raised("module 'db_tools' has no attribute 'health_check'", st) }

create_ticket(st, params, fault, now) ==
    IF fault = 1 THEN { Raised("unable to open database file", st) }
    ELSE LET ins == db_create_ticket(st, params.customer_id, params.issue,
                                     Arg(params, "priority", "medium"),
                                     Arg(params, "status", "open"), now)
         IN  { Returned(Ret(RowObject(ins.record), ins.store), 0) }

\* tool_map[method](**params) for a method of tool_map
CallTool(method, params, st, fault, now) ==
    IF BindError(method, params) # ""
    THEN { Raised(BindError(method, params), st) }
    ELSE CASE method = "health_check" -> health_check(st)
      [] method = "get_customer" ->
            { Returned(r, 2) : r \in db_tools_get_customer(st, params.customer_id, fault) }
      [] method = "list_customers" ->
            { Returned(r, 2) : r \in db_tools_list_customers(st,
                  Arg(params, "status", "None"), Arg(params, "limit", 10), fault) }
      [] method = "list_active_customers" ->
            { Returned(r, 2) : r \in db_tools_list_active_customers(st, fault) }
      [] method = "list_premium_customers" ->
            { Returned(r, 2) : r \in db_tools_list_premium_customers(st, fault) }
      [] method = "open_tickets_for_customer" ->
            { Returned(r, 2) :
                r \in db_tools_open_tickets_for_customer(st, params.customer_id, fault) }
      [] method = "high_priority_tickets_for_customers" ->
            { Returned(r, 2) :
                r \in db_tools_high_priority_tickets_for_customers(st, params.customer_ids, fault) }
      [] method = "billing_context_for_customer" ->
            { Returned(r, 2) :
                r \in db_tools_billing_context_for_customer(st, params.customer_id, fault) }
      [] method = "customer_ticket_history" ->
            { Returned(r, 3) :
                r \in db_tools_customer_ticket_history(st, params.customer_id, fault) }
      [] method = "update_customer_email" ->
            { Returned(r, 2) :
                r \in db_tools_update_customer_email(st, params.customer_id,
                                                     params.new_email, fault, now) }
      [] method = "create_ticket" -> create_ticket(st, params, fault, now)

\* ------------------------------------------------------------------------
\* State
\* ------------------------------------------------------------------------
VARIABLES
    stdin,        \* lines written to the server's stdin and not yet read by it
    stdinClosed,  \* the writing end of the server's stdin is closed
    stdout,       \* lines the server wrote and the client has not yet read
    srv,          \* server loop: "running", "exited" (end of stream), "crashed"
    store,        \* the database file: customers and tickets
    clock,        \* CURRENT_TIMESTAMP
    hist,         \* history: one entry per loop iteration of the server
    fed,          \* number of lines written to stdin so far
    next_id,      \* MCPProcessClient._id
    lock,         \* MCPProcessClient._lock: the thread holding it, 0 when free
    callers,      \* the threads that use the client
    pc,           \* per thread: position inside call_tool
    request,      \* per thread: (name, args) of the call in progress
    loaded,       \* per thread: the value of _id read by  self._id += 1
    req_id,       \* per thread: local variable req_id
    outcome,      \* per thread: how the last call_tool ended
    ncalls,       \* number of call_tool invocations started
    discarded,    \* history: response lines read by a thread awaiting another id
    minted,       \* history: the identifiers minted, in the order of the lock
    cat,          \* the catalog operation a direct caller of db_tools ran last
    cl,           \* MCPProcessClient.close: its position and the signals it sent
    txn           \* one update_customer_email call between its two connections

pipeVars   == <<stdin, stdinClosed, stdout, fed>>
serverVars == <<srv, store, clock, hist>>
clientVars == <<next_id, lock, callers, pc, request, loaded, req_id, outcome,
                ncalls, discarded, minted>>
restVars   == <<cat, cl, txn>>
vars       == <<stdin, stdinClosed, stdout, fed, srv, store, clock, hist,
                next_id, lock, callers, pc, request, loaded, req_id, outcome,
                ncalls, discarded, minted, cat, cl, txn>>

Threads == 1..NumThreads

\* ------------------------------------------------------------------------
\* Lines
\* ------------------------------------------------------------------------
\* An input line: kind "blank", "malformed" (not JSON), "nonobject" (JSON
\* that is not an object) or "request" (a JSON object); method "<none>" is
\* an object without a method field, "<unhashable>" a method that is a
\* JSON array or object.
Line(kind, id, method, params) ==
    [kind |-> kind, id |-> id, method |-> method, params |-> params]

Request(id, method, params) == Line("request", id, method, params)

LogLine == [kind |-> "log", id |-> NoId, has |-> {}, code |-> 0, message |-> "",
            result |-> NullValue]

ResultResponse(id, value) ==
    [kind |-> "response", id |-> id, has |-> {"result"}, code |-> 0, message |-> "",
     result |-> value]

ErrorResponse(id, code, message) ==
    [kind |-> "response", id |-> id, has |-> {"error"}, code |-> code,
     message |-> message, result |-> NullValue]

MethodNotFound == 0 - 32601
ServerError    == 0 - 32000

RECURSIVE Repeat(_, _)
Repeat(x, n) == IF n = 0 THEN << >> ELSE << x >> \o Repeat(x, n - 1)

IsResponse(l) == l.kind = "response"
Responses(lines) == SelectSeq(lines, IsResponse)

\* ------------------------------------------------------------------------
\* Server loop (_simple_stdio_server): one action per way an iteration ends
\* ------------------------------------------------------------------------
\* before, after: the store when the line was read and when the iteration
\* ended; fault: the store fault injected into its tool call (0: none)
Iteration(line, out, before, after, fault) ==
    [line |-> line, out |-> out, before |-> before, after |-> after, fault |-> fault]

\* Database connections a tool call opens once its parameters are bound
Connections(method) ==
    CASE method = "health_check"          -> 0
      [] method = "update_customer_email" -> 2
      [] OTHER                            -> 1

Faults(method, params) ==
    IF BindError(method, params) # "" THEN {0} ELSE 0..Connections(method)

\* (variant) a line that does not parse is answered with a parse error
ServeSkipAnswers ==
    /\ srv = "running" /\ stdin # << >>
    /\ Head(stdin).kind \in {"blank", "malformed"}
    /\ stdin' = Tail(stdin)
    /\ stdout' = IF Head(stdin).kind = "malformed"
                 THEN Append(stdout, ErrorResponse(NoId, ServerError, "Parse error"))
                 ELSE stdout
    /\ hist' = Append(hist, Iteration(Head(stdin),
                    IF Head(stdin).kind = "malformed"
                    THEN << ErrorResponse(NoId, ServerError, "Parse error") >>
                    ELSE << >>, store, store, 0))
    /\ UNCHANGED <<stdinClosed, fed, srv, store, clock>>
    /\ UNCHANGED clientVars
    /\ UNCHANGED restVars

\* line.strip() is empty, or json.loads fails: continue
ServeSkip ==
    /\ srv = "running" /\ stdin # << >>
    /\ Head(stdin).kind \in {"blank", "malformed"}
    /\ stdin' = Tail(stdin)
    /\ hist' = Append(hist, Iteration(Head(stdin), << >>, store, store, 0))
    /\ UNCHANGED <<stdinClosed, stdout, fed, srv, store, clock>>
    /\ UNCHANGED clientVars
    /\ UNCHANGED restVars

\* req.get on a value that is not a dict, or an unhashable method looked up
\* in tool_map: the exception leaves the loop and the process ends
ServeCrash ==
    /\ srv = "running" /\ stdin # << >>
    /\ \/ Head(stdin).kind = "nonobject"
       \/ Head(stdin).kind = "request" /\ Head(stdin).method = "<unhashable>"
    /\ stdin' = Tail(stdin)
    /\ srv' = "crashed"
    /\ hist' = Append(hist, Iteration(Head(stdin), << >>, store, store, 0))
    /\ UNCHANGED <<stdinClosed, stdout, fed, store, clock>>
    /\ UNCHANGED clientVars
    /\ UNCHANGED restVars

\* (variant) the error response does not echo the request's id
NotFoundReplyNoId(req) == << ErrorResponse(NoId, MethodNotFound, "Method not found") >>

NotFoundReply(req) == << ErrorResponse(req.id, MethodNotFound, "Method not found") >>

ServeNotFound ==
    /\ srv = "running" /\ stdin # << >>
    /\ Head(stdin).kind = "request"
    /\ Head(stdin).method # "<unhashable>"
    /\ Head(stdin).method \notin tool_map
    /\ stdin' = Tail(stdin)
    /\ stdout' = stdout \o NotFoundReply(Head(stdin))
    /\ hist' = Append(hist, Iteration(Head(stdin), NotFoundReply(Head(stdin)), store, store, 0))
    /\ UNCHANGED <<stdinClosed, fed, srv, store, clock>>
    /\ UNCHANGED clientVars
    /\ UNCHANGED restVars

\* (variant) the error response of a raising tool does not echo the id
CallReplyUnidentified(req, o) ==
    Repeat(LogLine, o.logs) \o
    << IF o.raised THEN ErrorResponse(NoId, ServerError, o.msg)
       ELSE ResultResponse(req.id, o.value) >>

\* (variant) the response of a raising tool carries "result": null next to
\* its error
CallReplyBothFields(req, o) ==
    Repeat(LogLine, o.logs) \o
    << IF o.raised
       THEN [ErrorResponse(req.id, ServerError, o.msg) EXCEPT !.has = {"result", "error"}]
       ELSE ResultResponse(req.id, o.value) >>

\* (variant) a raising tool is reported with the code of an unknown method
CallReplyWrongCode(req, o) ==
    Repeat(LogLine, o.logs) \o
    << IF o.raised THEN ErrorResponse(req.id, MethodNotFound, o.msg)
       ELSE ResultResponse(req.id, o.value) >>

\* The lines an invocation puts on stdout: what db_tools printed, then the
\* response
CallReply(req, o) ==
    Repeat(LogLine, o.logs) \o
    << IF o.raised THEN ErrorResponse(req.id, ServerError, o.msg)
       ELSE ResultResponse(req.id, o.value) >>

\* (variant) the response is put in front of the lines already written
ServeCallPrepends ==
    /\ srv = "running" /\ stdin # << >>
    /\ Head(stdin).kind = "request"
    /\ Head(stdin).method \in tool_map
    /\ \E fault \in Faults(Head(stdin).method, Head(stdin).params),
          now \in { clock, IF clock < MaxClock THEN clock + 1 ELSE clock } :
       \E o \in CallTool(Head(stdin).method, Head(stdin).params, store, fault, now) :
          /\ stdout' = CallReply(Head(stdin), o) \o stdout
          /\ store' = o.store
          /\ clock' = now
          /\ hist' = Append(hist, Iteration(Head(stdin), CallReply(Head(stdin), o), store, o.store, fault))
    /\ stdin' = Tail(stdin)
    /\ UNCHANGED <<stdinClosed, fed, srv>>
    /\ UNCHANGED clientVars
    /\ UNCHANGED restVars

ServeCall ==
    /\ srv = "running" /\ stdin # << >>
    /\ Head(stdin).kind = "request"
    /\ Head(stdin).method \in tool_map
    /\ \E fault \in Faults(Head(stdin).method, Head(stdin).params),
          now \in { clock, IF clock < MaxClock THEN clock + 1 ELSE clock } :
       \E o \in CallTool(Head(stdin).method, Head(stdin).params, store, fault, now) :
          /\ stdout' = stdout \o CallReply(Head(stdin), o)
          /\ store' = o.store
          /\ clock' = now
          /\ hist' = Append(hist, Iteration(Head(stdin), CallReply(Head(stdin), o), store, o.store, fault))
    /\ stdin' = Tail(stdin)
    /\ UNCHANGED <<stdinClosed, fed, srv>>
    /\ UNCHANGED clientVars
    /\ UNCHANGED restVars

\* (variant) the loop stops as soon as the writer has closed the stream,
\* leaving the lines still buffered unread
ServeEOFEarly ==
    /\ srv = "running" /\ stdinClosed
    /\ srv' = "exited"
    /\ UNCHANGED <<stdin, stdinClosed, stdout, fed, store, clock, hist>>
    /\ UNCHANGED clientVars
    /\ UNCHANGED restVars

\* for line in sys.stdin  ends: readline returned "" (end of stream)
ServeEOF ==
    /\ srv = "running" /\ stdin = << >> /\ stdinClosed
    /\ srv' = "exited"
    /\ UNCHANGED <<stdin, stdinClosed, stdout, fed, store, clock, hist>>
    /\ UNCHANGED clientVars
    /\ UNCHANGED restVars

\* ------------------------------------------------------------------------
\* A process feeding the server's stdin by hand (python mcp_server.py
\* --simple-stdio), as the docstring of _simple_stdio_server describes
\* ------------------------------------------------------------------------
CatalogMethods ==
    {"get_customer", "list_customers", "list_active_customers",
     "list_premium_customers", "update_customer_email", "create_ticket",
     "get_customer_history", "customer_ticket_history", "list_open_tickets",
     "open_tickets_for_customer", "high_priority_tickets_for_customers",
     "billing_context_for_customer", "list_active_customers_with_open_tickets"}

\* Parameters that bind to the method's signature in the catalog table
GoodParams(method) ==
    CASE method \in {"get_customer", "open_tickets_for_customer",
                     "billing_context_for_customer", "customer_ticket_history",
                     "get_customer_history"}
            -> { Params([customer_id |-> 1]), Params([customer_id |-> 9]) }
      [] method = "list_customers"
            -> { Params([status |-> "active", limit |-> 1]), P0 }
      [] method = "high_priority_tickets_for_customers"
            -> { Params([customer_ids |-> << 1 >>]) }
      [] method = "update_customer_email"
            -> { Params([customer_id |-> 1, new_email |-> "new@x"]),
                 Params([customer_id |-> 9, new_email |-> "new@x"]) }
      [] method = "create_ticket"
            -> { Params([customer_id |-> 9, issue |-> IssueLogin]) }
      [] OTHER -> { P0 }

NonMap == [P0 EXCEPT !.shape = "nonmap"]

InputLines ==
    { Line("blank", NoId, "<none>", P0),
      Line("malformed", NoId, "<none>", P0),
      Line("nonobject", NoId, "<none>", P0),
      Request(7, "<unhashable>", P0),
      Request(7, "does_not_exist", P0),
      Request(NoId, "<none>", P0),
      Request(7, "health_check", P0),
      Request(7, "get_customer", Params([customer_id |-> 1, db_path |-> "None"])),
      Request(7, "get_customer", P0),
      Request(7, "high_priority_tickets_for_customers", P0),
      Request(NoId, "list_customers", NonMap),
      Request(7, "create_ticket", Params([issue |-> IssueLogin])) }
    \cup UNION { { Request(8, m, p) : p \in GoodParams(m) } : m \in CatalogMethods }

IsCreate(l) == l.kind = "request" /\ l.method = "create_ticket"

FeedFrom(lines) ==
    /\ ~ stdinClosed /\ fed < MaxLines
    /\ \E l \in lines :
          /\ IsCreate(l) =>
                Len(store.tickets) + Len(SelectSeq(stdin, IsCreate)) < MaxTickets
          /\ stdin' = Append(stdin, l)
    /\ fed' = fed + 1
    /\ UNCHANGED <<stdinClosed, stdout>>
    /\ UNCHANGED serverVars
    /\ UNCHANGED clientVars
    /\ UNCHANGED restVars

Feed == FeedFrom(InputLines)

\* One line of each kind the loop tells apart: blank, unparseable, not an
\* object, unhashable method, unknown method, no method, a tool that raises
\* and a tool that returns
FewLines ==
    { l \in InputLines : l.kind # "request" \/ l.id \in {NoId, 7}
                            \/ l.method = "get_customer" }

FeedFew == FeedFrom(FewLines)

CloseStdin ==
    /\ ~ stdinClosed
    /\ stdinClosed' = TRUE
    /\ UNCHANGED <<stdin, stdout, fed>>
    /\ UNCHANGED serverVars
    /\ UNCHANGED clientVars
    /\ UNCHANGED restVars

\* A catalog call made directly on db_tools: the operation, its arguments,
\* the injected store fault, the store before and after, what it returned or
\* raised, and (for update_customer_email) the call made just before it
NoPrev == [op |-> "", args |-> P0, raised |-> FALSE, result |-> NullValue,
           after |-> SeedStore]
NoCat  == [op |-> "", args |-> P0, fault |-> 0, before |-> SeedStore,
           raised |-> FALSE, result |-> NullValue, after |-> SeedStore,
           prev |-> NoPrev]

NoRequest == [name |-> "", args |-> P0]
\* close() has not been entered: proc is set, no signal was sent
NoClose == [pc |-> "open", alive |-> FALSE, grace |-> "", sent |-> << >>]

\* update_customer_email is not running
NoTxn == [pc |-> "idle", customer_id |-> NoId, new_email |-> "", result |-> NullValue]

NoOutcome == [kind |-> "none", msg |-> "", value |-> NullValue]

InitState ==
    /\ stdin = << >> /\ stdinClosed = FALSE /\ stdout = << >> /\ fed = 0
    /\ srv = "running" /\ store = SeedStore /\ clock = 1 /\ hist = << >>
    /\ next_id = 0 /\ lock = 0
    /\ pc = [t \in Threads |-> "idle"]
    /\ request = [t \in Threads |-> NoRequest]
    /\ loaded = [t \in Threads |-> 0]
    /\ req_id = [t \in Threads |-> 0]
    /\ outcome = [t \in Threads |-> NoOutcome]
    /\ ncalls = 0 /\ discarded = {} /\ minted = << >>
    /\ cat = NoCat
    /\ cl = NoClose
    /\ txn = NoTxn

InitServer == InitState /\ callers = {}

NextServer == Feed \/ CloseStdin \/ ServeSkip \/ ServeCrash \/ ServeNotFound
              \/ ServeCall \/ ServeEOF

SpecServer == InitServer /\ [][NextServer]_vars

NextServerFew == FeedFew \/ CloseStdin \/ ServeSkip \/ ServeCrash \/ ServeNotFound
                 \/ ServeCall \/ ServeEOF

\* The loop is the only thread of the server process: it always takes its
\* next step
SpecServerFair ==
    /\ InitServer /\ [][NextServerFew]_vars
    /\ WF_vars(ServeSkip \/ ServeCrash \/ ServeNotFound \/ ServeCall \/ ServeEOF)

\* ------------------------------------------------------------------------
\* The query catalog called in-process: db_tools' functions "used as tools
\* by ADK agents" (module docstring)
\* ------------------------------------------------------------------------
\* CURRENT_TIMESTAMP read by a statement that writes
Times == { clock, IF clock < MaxClock THEN clock + 1 ELSE clock }

\* The call just made becomes cat; the call before it is kept when both are
\* update_customer_email
CatalogCall(op, args, fault, now, r) ==
    /\ cat' = [op |-> op, args |-> args, fault |-> fault, before |-> store,
               raised |-> r.raised, result |-> r.value, after |-> r.store,
               prev |-> IF op = "update_customer_email" /\ cat.op = op
                        THEN [op |-> cat.op, args |-> cat.args, raised |-> cat.raised,
                              result |-> cat.result, after |-> cat.after]
                        ELSE NoPrev]
    /\ store' = r.store
    /\ clock' = now
    /\ UNCHANGED pipeVars
    /\ UNCHANGED <<srv, hist>>
    /\ UNCHANGED clientVars
    /\ UNCHANGED <<cl, txn>>

GetCustomer ==
    \E id \in {1, 2, 9}, fault \in 0..1 :
       \E r \in db_tools_get_customer(store, id, fault) :
          CatalogCall("get_customer", Params([customer_id |-> id]), fault, clock, r)

ListCustomers ==
    \E status \in {"None", "active"}, limit \in {0, 1, 10},
       fault \in 0..1 :
       \E r \in db_tools_list_customers(store, status, limit, fault) :
          CatalogCall("list_customers", Params([status |-> status, limit |-> limit]),
                      fault, clock, r)

ListActiveCustomers ==
    \E fault \in 0..1 : \E r \in db_tools_list_active_customers(store, fault) :
       CatalogCall("list_active_customers", P0, fault, clock, r)

ListPremiumCustomers ==
    \E fault \in 0..1 : \E r \in db_tools_list_premium_customers(store, fault) :
       CatalogCall("list_premium_customers", P0, fault, clock, r)

UpdateCustomerEmail ==
    \E id \in {1, 9}, new_email \in {"al@x", "new@x"}, fault \in 0..2, now \in Times :
       \E r \in db_tools_update_customer_email(store, id, new_email, fault, now) :
          CatalogCall("update_customer_email",
                      Params([customer_id |-> id, new_email |-> new_email]), fault, now, r)

\* The tickets the model creates
TicketInputs ==
    { [customer_id |-> 1, issue |-> IssueLogin, priority |-> "medium", status |-> "open"],
      [customer_id |-> 2, issue |-> IssueCharge, priority |-> "high", status |-> "resolved"],
      [customer_id |-> 2, issue |-> IssueLogin, priority |-> "high", status |-> "open"] }

CreateTicket ==
    /\ Len(store.tickets) < MaxTickets
    /\ \E a \in TicketInputs, fault \in 0..1, now \in Times :
          \E r \in db_tools_create_ticket(store, a.customer_id, a.issue, a.priority,
                                          a.status, fault, now) :
             CatalogCall("create_ticket", Params(a), fault, now, r)

GetCustomerHistory ==
    \E id \in {1, 9}, fault \in 0..1 :
       \E r \in db_tools_get_customer_history(store, id, fault) :
          CatalogCall("get_customer_history", Params([customer_id |-> id]), fault, clock, r)

CustomerTicketHistory ==
    \E id \in {1, 9}, fault \in 0..1 :
       \E r \in db_tools_customer_ticket_history(store, id, fault) :
          CatalogCall("customer_ticket_history", Params([customer_id |-> id]), fault, clock, r)

ListOpenTickets ==
    \E fault \in 0..1 : \E r \in db_tools_list_open_tickets(store, fault) :
       CatalogCall("list_open_tickets", P0, fault, clock, r)

OpenTicketsForCustomer ==
    \E id \in {1, 9}, fault \in 0..1 :
       \E r \in db_tools_open_tickets_for_customer(store, id, fault) :
          CatalogCall("open_tickets_for_customer", Params([customer_id |-> id]), fault, clock, r)

HighPriorityTicketsForCustomers ==
    \E ids \in { << >>, << 1 >>, << 1, 2 >> }, fault \in 0..1 :
       \E r \in db_tools_high_priority_tickets_for_customers(store, ids, fault) :
          CatalogCall("high_priority_tickets_for_customers",
                      Params([customer_ids |-> ids]), fault, clock, r)

ListActiveCustomersWithOpenTickets ==
    \E fault \in 0..1 :
       \E r \in db_tools_list_active_customers_with_open_tickets(store, fault) :
          CatalogCall("list_active_customers_with_open_tickets", P0, fault, clock, r)

BillingContextForCustomer ==
    \E id \in {1, 9}, fault \in 0..1 :
       \E r \in db_tools_billing_context_for_customer(store, id, fault) :
          CatalogCall("billing_context_for_customer", Params([customer_id |-> id]), fault, clock, r)

\* db.update_customer(customer_id, {"status": status}): the whitelisted
\* update changes a customer's status
SetStatus ==
    \E id \in {2}, status \in {"active", "disabled"}, now \in Times :
       LET upd == db_update_customer(store, id, [status |-> status], now)
       IN  CatalogCall("db.update_customer",
                       Params([customer_id |-> id, status |-> status]), 0, now,
                       Ret(RowObject(upd.record[1]), upd.store))

InitCatalog == InitState /\ callers = {}

NextCatalog ==
    \/ GetCustomer \/ ListCustomers \/ ListActiveCustomers \/ ListPremiumCustomers
    \/ UpdateCustomerEmail \/ CreateTicket \/ GetCustomerHistory
    \/ CustomerTicketHistory \/ ListOpenTickets \/ OpenTicketsForCustomer
    \/ HighPriorityTicketsForCustomers \/ ListActiveCustomersWithOpenTickets
    \/ BillingContextForCustomer \/ SetStatus

SpecCatalog == InitCatalog /\ [][NextCatalog]_vars

\* ------------------------------------------------------------------------
\* The store operations of db.py called in-process, with the two catalog
\* reads that match text
\* ------------------------------------------------------------------------
\* A bare row list, as db.get_customer_history returns it
RowList(rows) == [keys |-> {}, success |-> FALSE, rows |-> rows, error |-> ""]

NoData == [k \in {} |-> ""]

\* update_customer(customer_id, data) as the model calls it: no field, no
\* whitelisted field, one field, whitelisted and other fields mixed, two
\* fields, and a customer that does not exist
UpdateInputs ==
    << [customer_id |-> 2, data |-> NoData],
       [customer_id |-> 2, data |-> [id |-> 7]],
       [customer_id |-> 2, data |-> [name |-> NameLower]],
       [customer_id |-> 2, data |-> [status |-> "active", created_at |-> 9]],
       [customer_id |-> 1, data |-> [email |-> "new@x", phone |-> "557"]],
       [customer_id |-> 9, data |-> [status |-> "active"]] >>

DbUpdateCustomer ==
    \E i \in DOMAIN UpdateInputs, now \in Times :
       LET upd == db_update_customer(store, UpdateInputs[i].customer_id,
                                     UpdateInputs[i].data, now)
       IN  CatalogCall("update_customer", UpdateInputs[i], 0, now,
                       Ret(IF upd.record = << >> THEN NullValue
                           ELSE RowObject(upd.record[1]), upd.store))

\* create_ticket as the model calls it: for a customer that does not exist,
\* with an issue spelling a keyword in capitals, and without a keyword
DbTicketInputs ==
    { [customer_id |-> 9, issue |-> IssueCharge, priority |-> "high", status |-> "open"],
      [customer_id |-> 1, issue |-> IssueUpper, priority |-> "low", status |-> "resolved"],
      [customer_id |-> 1, issue |-> IssueLogin, priority |-> "medium", status |-> "open"] }

DbCreateTicket ==
    /\ Len(store.tickets) < MaxTickets
    /\ \E a \in DbTicketInputs, now \in Times :
          LET ins == db_create_ticket(store, a.customer_id, a.issue, a.priority,
                                      a.status, now)
          IN  CatalogCall("db.create_ticket", Params(a), 0, now,
                          Ret(RowObject(ins.record), ins.store))

DbGetCustomerHistory ==
    \E id \in {1, 9} : \E rows \in db_get_customer_history(store, id) :
       CatalogCall("db.get_customer_history", Params([customer_id |-> id]), 0, clock,
                   Ret(RowList(rows), store))

NextStore ==
    \/ DbUpdateCustomer \/ DbCreateTicket \/ DbGetCustomerHistory
    \/ ListPremiumCustomers \/ BillingContextForCustomer

SpecStore == InitCatalog /\ [][NextStore]_vars

\* ------------------------------------------------------------------------
\* Client (mcp_client.py)
\* ------------------------------------------------------------------------
ToolCall(name, args) == [name |-> name, args |-> args]

\* MCPDataClient: the typed wrappers and the request each one sends
MCPDataClient_get_customer(customer_id, db_path) ==
    ToolCall("get_customer", Params([customer_id |-> customer_id, db_path |-> db_path]))

MCPDataClient_list_customers(status, limit, db_path) ==
    ToolCall("list_customers",
             Params([status |-> status, limit |-> limit, db_path |-> db_path]))

MCPDataClient_update_customer(customer_id, data, db_path) ==
    ToolCall("update_customer",
             Params([customer_id |-> customer_id, data |-> data, db_path |-> db_path]))

MCPDataClient_create_ticket(customer_id, issue, priority, status, db_path) ==
    ToolCall("create_ticket",
             Params([customer_id |-> customer_id, issue |-> issue,
                     priority |-> priority, status |-> status, db_path |-> db_path]))

MCPDataClient_get_customer_history(customer_id, db_path) ==
    ToolCall("get_customer_history",
             Params([customer_id |-> customer_id, db_path |-> db_path]))

\* The calls the threads of the model make
ClientCalls ==
    { MCPDataClient_get_customer(1, "None"),
      MCPDataClient_create_ticket(1, IssueLogin, "low", "open", "None"),
      MCPDataClient_get_customer_history(1, "None"),
      ToolCall("get_customer", Params([customer_id |-> 1])),
      ToolCall("get_customer", Params([customer_id |-> 9])),
      ToolCall("update_customer_email", Params([customer_id |-> 1, new_email |-> "new@x"])),
      ToolCall("does_not_exist", P0) }

PendingCreates ==
    Len(SelectSeq(stdin, IsCreate)) +
    Cardinality({ t \in Threads : pc[t] \in {"lock", "incr", "write"}
                                  /\ request[t].name = "create_ticket" })

\* call_tool is entered: proc.stdin and proc.stdout are there
CallFrom(t, calls) ==
    /\ t \in callers /\ pc[t] = "idle" /\ ncalls < MaxCalls
    /\ cl.pc = "open"
    /\ \E c \in calls :
          /\ c.name = "create_ticket" =>
                Len(store.tickets) + PendingCreates < MaxTickets
          /\ request' = [request EXCEPT ![t] = c]
    /\ pc' = [pc EXCEPT ![t] = "lock"]
    /\ outcome' = [outcome EXCEPT ![t] = NoOutcome]
    /\ ncalls' = ncalls + 1
    /\ UNCHANGED <<next_id, lock, callers, loaded, req_id, discarded, minted>>
    /\ UNCHANGED pipeVars
    /\ UNCHANGED serverVars
    /\ UNCHANGED restVars

Call(t) == CallFrom(t, ClientCalls)

\* (variant) the identifier is minted without taking the lock
LockIgnored(holder) == TRUE

LockAvailable(holder) == holder = 0

\* with self._lock:  and the read of self._id by  self._id += 1
Acquire(t) ==
    /\ pc[t] = "lock" /\ LockAvailable(lock)
    /\ lock' = t
    /\ loaded' = [loaded EXCEPT ![t] = next_id]
    /\ pc' = [pc EXCEPT ![t] = "incr"]
    /\ UNCHANGED <<next_id, callers, request, req_id, outcome, ncalls, discarded, minted>>
    /\ UNCHANGED pipeVars
    /\ UNCHANGED serverVars
    /\ UNCHANGED restVars

\* the write of  self._id += 1,  req_id = self._id,  and the release
MintId(t) ==
    /\ pc[t] = "incr"
    /\ next_id' = loaded[t] + 1
    /\ req_id' = [req_id EXCEPT ![t] = loaded[t] + 1]
    /\ minted' = Append(minted, loaded[t] + 1)
    /\ lock' = 0
    /\ pc' = [pc EXCEPT ![t] = "write"]
    /\ UNCHANGED <<callers, request, loaded, outcome, ncalls, discarded>>
    /\ UNCHANGED pipeVars
    /\ UNCHANGED serverVars
    /\ UNCHANGED restVars

\* proc.stdin.write(json.dumps(request) + "\n"); flush()
WriteRequest(t) ==
    /\ pc[t] = "write" /\ srv = "running"
    /\ stdin' = Append(stdin, Request(req_id[t], request[t].name, request[t].args))
    /\ pc' = [pc EXCEPT ![t] = "read"]
    /\ UNCHANGED <<stdinClosed, stdout, fed>>
    /\ UNCHANGED <<next_id, lock, callers, request, loaded, req_id, outcome,
                   ncalls, discarded, minted>>
    /\ UNCHANGED serverVars
    /\ UNCHANGED restVars

\* (variant) the first response read is taken, whatever its id
MatchesAny(line, awaited) == TRUE

\* resp.get("id") != req_id  is false for this line
Matches(line, awaited) == line.id = awaited

\* readline, then continue: the line is not JSON or bears another id
ReadSkip(t) ==
    /\ pc[t] = "read" /\ stdout # << >>
    /\ \/ Head(stdout).kind = "log"
       \/ Head(stdout).kind = "response" /\ ~ Matches(Head(stdout), req_id[t])
    /\ stdout' = Tail(stdout)
    /\ discarded' = IF Head(stdout).kind = "response"
                    THEN discarded \cup { [by |-> t, awaited |-> req_id[t],
                                           line |-> Head(stdout)] }
                    ELSE discarded
    /\ UNCHANGED <<stdin, stdinClosed, fed>>
    /\ UNCHANGED <<next_id, lock, callers, pc, request, loaded, req_id, outcome,
                   ncalls, minted>>
    /\ UNCHANGED serverVars
    /\ UNCHANGED restVars

\* readline, then  return resp.get("result")
ReadResult(t) ==
    /\ pc[t] = "read" /\ stdout # << >>
    /\ Head(stdout).kind = "response" /\ Matches(Head(stdout), req_id[t])
    /\ "error" \notin Head(stdout).has
    /\ stdout' = Tail(stdout)
    /\ outcome' = [outcome EXCEPT ![t] =
                      [kind |-> "returned", msg |-> "", value |-> Head(stdout).result]]
    /\ pc' = [pc EXCEPT ![t] = "idle"]
    /\ UNCHANGED <<stdin, stdinClosed, fed>>
    /\ UNCHANGED <<next_id, lock, callers, request, loaded, req_id, ncalls,
                   discarded, minted>>
    /\ UNCHANGED serverVars
    /\ UNCHANGED restVars

\* (variant) the error of the awaited response is ignored and its absent
\* result returned
ReadErrorReturns(t) ==
    /\ pc[t] = "read" /\ stdout # << >>
    /\ Head(stdout).kind = "response" /\ Matches(Head(stdout), req_id[t])
    /\ "error" \in Head(stdout).has
    /\ stdout' = Tail(stdout)
    /\ outcome' = [outcome EXCEPT ![t] =
                      [kind |-> "returned", msg |-> "", value |-> NullValue]]
    /\ pc' = [pc EXCEPT ![t] = "idle"]
    /\ UNCHANGED <<stdin, stdinClosed, fed>>
    /\ UNCHANGED <<next_id, lock, callers, request, loaded, req_id, ncalls,
                   discarded, minted>>
    /\ UNCHANGED serverVars
    /\ UNCHANGED restVars

\* readline, then  raise RuntimeError(resp["error"].get("message", ...))
ReadError(t) ==
    /\ pc[t] = "read" /\ stdout # << >>
    /\ Head(stdout).kind = "response" /\ Matches(Head(stdout), req_id[t])
    /\ "error" \in Head(stdout).has
    /\ stdout' = Tail(stdout)
    /\ outcome' = [outcome EXCEPT ![t] =
                      [kind |-> "raised", msg |-> Head(stdout).message, value |-> NullValue]]
    /\ pc' = [pc EXCEPT ![t] = "idle"]
    /\ UNCHANGED <<stdin, stdinClosed, fed>>
    /\ UNCHANGED <<next_id, lock, callers, request, loaded, req_id, ncalls,
                   discarded, minted>>
    /\ UNCHANGED serverVars
    /\ UNCHANGED restVars

\* One client process used by one thread or by all threads of the model
Init == InitState /\ callers \in { {1}, Threads }

Next == \/ \E t \in Threads : Call(t)
        \/ \E t \in Threads : Acquire(t)
        \/ \E t \in Threads : MintId(t)
        \/ \E t \in Threads : WriteRequest(t)
        \/ \E t \in Threads : ReadSkip(t)
        \/ \E t \in Threads : ReadResult(t)
        \/ \E t \in Threads : ReadError(t)
        \/ ServeNotFound
        \/ ServeCall

Spec == Init /\ [][Next]_vars

\* The server loop runs while lines are pending and a thread inside
\* call_tool keeps running
SpecFair ==
    /\ Spec
    /\ WF_vars(ServeNotFound \/ ServeCall)
    /\ \A t \in Threads :
          WF_vars(Acquire(t) \/ MintId(t) \/ WriteRequest(t)
                  \/ ReadSkip(t) \/ ReadResult(t) \/ ReadError(t))

\* ------------------------------------------------------------------------
\* The server process ending under a client
\* ------------------------------------------------------------------------
\* The server process is gone (killed, or ended by an uncaught exception):
\* its ends of the pipes are closed, the lines it had written stay readable
ServerDies ==
    /\ srv = "running"
    /\ srv' = "killed"
    /\ UNCHANGED <<store, clock, hist>>
    /\ UNCHANGED pipeVars
    /\ UNCHANGED clientVars
    /\ UNCHANGED restVars

\* proc.stdin.write / flush on a pipe nobody reads: BrokenPipeError leaves
\* call_tool
WriteBroken(t) ==
    /\ pc[t] = "write" /\ srv # "running"
    /\ outcome' = [outcome EXCEPT ![t] =
                      [kind |-> "raised", msg |-> "BrokenPipeError", value |-> NullValue]]
    /\ pc' = [pc EXCEPT ![t] = "idle"]
    /\ UNCHANGED <<next_id, lock, callers, request, loaded, req_id, ncalls,
                   discarded, minted>>
    /\ UNCHANGED pipeVars
    /\ UNCHANGED serverVars
    /\ UNCHANGED restVars

Terminated == "MCP server terminated unexpectedly."

\* (variant) end of stream is taken for an absent result
ReadEOFReturnsNone(t) ==
    /\ pc[t] = "read" /\ stdout = << >> /\ srv # "running"
    /\ outcome' = [outcome EXCEPT ![t] =
                      [kind |-> "returned", msg |-> "", value |-> NullValue]]
    /\ pc' = [pc EXCEPT ![t] = "idle"]
    /\ UNCHANGED <<next_id, lock, callers, request, loaded, req_id, ncalls,
                   discarded, minted>>
    /\ UNCHANGED pipeVars
    /\ UNCHANGED serverVars
    /\ UNCHANGED restVars

\* readline returns "":  raise RuntimeError("MCP server terminated
\* unexpectedly.")
ReadEOF(t) ==
    /\ pc[t] = "read" /\ stdout = << >> /\ srv # "running"
    /\ outcome' = [outcome EXCEPT ![t] =
                      [kind |-> "raised", msg |-> Terminated, value |-> NullValue]]
    /\ pc' = [pc EXCEPT ![t] = "idle"]
    /\ UNCHANGED <<next_id, lock, callers, request, loaded, req_id, ncalls,
                   discarded, minted>>
    /\ UNCHANGED pipeVars
    /\ UNCHANGED serverVars
    /\ UNCHANGED restVars

InitLife == InitState /\ callers = {1}

NextLife == \/ \E t \in Threads : Call(t)
            \/ \E t \in Threads : Acquire(t)
            \/ \E t \in Threads : MintId(t)
            \/ \E t \in Threads : WriteRequest(t)
            \/ \E t \in Threads : ReadSkip(t)
            \/ \E t \in Threads : ReadResult(t)
            \/ \E t \in Threads : ReadError(t)
            \/ ServeNotFound
            \/ ServeCall
            \/ ServerDies
            \/ \E t \in Threads : WriteBroken(t)
            \/ \E t \in Threads : ReadEOF(t)

\* The calling thread keeps running; the server loop runs while it lives
SpecLife ==
    /\ InitLife /\ [][NextLife]_vars
    /\ WF_vars(ServeNotFound \/ ServeCall)
    /\ \A t \in Threads :
          WF_vars(Acquire(t) \/ MintId(t) \/ WriteRequest(t) \/ WriteBroken(t)
                  \/ ReadSkip(t) \/ ReadResult(t) \/ ReadError(t) \/ ReadEOF(t))

\* ------------------------------------------------------------------------
\* update_customer_email next to other processes using the same database
\* file: db.update_customer commits the UPDATE on one connection, closes it
\* and reads the row back through get_customer on a second connection
\* ------------------------------------------------------------------------
\* db_update_customer(customer_id, data={"email": new_email}): the UPDATE and
\* conn.commit()
EmailCommit ==
    /\ txn.pc \in {"idle", "returned"}
    /\ \E id \in {1, 9}, new_email \in {"own@x", "new@x"}, now \in Times :
          /\ store' = db_update_rows(store, id, [email |-> new_email], now)
          /\ clock' = now
          /\ txn' = [pc |-> "committed", customer_id |-> id, new_email |-> new_email,
                     result |-> NullValue]
    /\ UNCHANGED <<srv, hist>>
    /\ UNCHANGED pipeVars
    /\ UNCHANGED clientVars
    /\ UNCHANGED <<cat, cl>>

\* return get_customer(customer_id, db_path=db_path)  and the envelope built
\* from the record
EmailReadBack ==
    /\ txn.pc = "committed"
    /\ LET record == db_get_customer(store, txn.customer_id)
       IN  txn' = [txn EXCEPT !.pc = "returned",
                              !.result = IF record = << >>
                                         THEN Fail("Customer not found or update failed.")
                                         ELSE Ok("customer", record)]
    /\ UNCHANGED pipeVars
    /\ UNCHANGED serverVars
    /\ UNCHANGED clientVars
    /\ UNCHANGED <<cat, cl>>

\* Another process commits an UPDATE of its own at any moment
OtherUpdate ==
    /\ \E id \in {1, 2}, data \in { [email |-> "other@x"], [status |-> "active"] },
          now \in Times :
          /\ store' = db_update_rows(store, id, data, now)
          /\ clock' = now
    /\ UNCHANGED <<srv, hist>>
    /\ UNCHANGED pipeVars
    /\ UNCHANGED clientVars
    /\ UNCHANGED restVars

NextShared == EmailCommit \/ EmailReadBack \/ OtherUpdate

SpecShared == InitCatalog /\ [][NextShared]_vars

\* ------------------------------------------------------------------------
\* The typed wrappers of MCPDataClient against the dispatch table
\* ------------------------------------------------------------------------
\* One request of each wrapper the agents use, with valid arguments
WrapperCalls ==
    { MCPDataClient_list_customers("active", 10, "None"),
      MCPDataClient_update_customer(1, [email |-> "new@x"], "None"),
      MCPDataClient_create_ticket(1, IssueLogin, "low", "open", "None"),
      MCPDataClient_get_customer_history(1, "None") }

\* A wrapper is called, or call_tool directly with the request of the module
\* docstring of the server
CallWrapper(t) ==
    CallFrom(t, WrapperCalls \cup { ToolCall("get_customer", Params([customer_id |-> 1])) })

NextWrappers == \/ \E t \in Threads : CallWrapper(t)
                \/ \E t \in Threads : Acquire(t)
                \/ \E t \in Threads : MintId(t)
                \/ \E t \in Threads : WriteRequest(t)
                \/ \E t \in Threads : ReadSkip(t)
                \/ \E t \in Threads : ReadResult(t)
                \/ \E t \in Threads : ReadError(t)
                \/ ServeNotFound
                \/ ServeCall

SpecWrappers == InitLife /\ [][NextWrappers]_vars

\* ------------------------------------------------------------------------
\* MCPProcessClient.close
\* ------------------------------------------------------------------------
\* What Popen.terminate / Popen.kill deliver: a running process gets the
\* signal; for one that ended since the last poll the runtime either polls
\* again and sends nothing, or signals the unreaped process
Delivered == IF srv = "running" THEN {TRUE} ELSE BOOLEAN

\* if self.proc and self.proc.poll() is None:  entered between two calls
ClosePoll ==
    /\ cl.pc = "open" /\ \A t \in Threads : pc[t] = "idle"
    /\ cl' = [cl EXCEPT !.pc = IF srv = "running" THEN "terminate" ELSE "clear",
                        !.alive = (srv = "running")]
    /\ UNCHANGED <<cat, txn>>
    /\ UNCHANGED pipeVars
    /\ UNCHANGED serverVars
    /\ UNCHANGED clientVars

\* self.proc.terminate()
CloseTerminate ==
    /\ cl.pc = "terminate"
    /\ \E d \in Delivered :
          cl' = [cl EXCEPT !.pc = "wait",
                           !.sent = IF d THEN Append(@, "SIGTERM") ELSE @]
    /\ UNCHANGED <<cat, txn>>
    /\ UNCHANGED pipeVars
    /\ UNCHANGED serverVars
    /\ UNCHANGED clientVars

\* (variant) the process that ended within the grace period is killed as well
CloseExitedKills ==
    /\ cl.pc = "wait"
    /\ srv' = IF srv = "running" THEN "terminated" ELSE srv
    /\ cl' = [cl EXCEPT !.pc = "clear", !.grace = "exited",
                        !.sent = Append(@, "SIGKILL")]
    /\ UNCHANGED <<cat, txn>>
    /\ UNCHANGED <<store, clock, hist>>
    /\ UNCHANGED pipeVars
    /\ UNCHANGED clientVars

\* self.proc.wait(timeout=2) returns: the process ended within two seconds
\* (on the signal, or it had ended before)
CloseExited ==
    /\ cl.pc = "wait"
    /\ srv' = IF srv = "running" THEN "terminated" ELSE srv
    /\ cl' = [cl EXCEPT !.pc = "clear", !.grace = "exited"]
    /\ UNCHANGED <<cat, txn>>
    /\ UNCHANGED <<store, clock, hist>>
    /\ UNCHANGED pipeVars
    /\ UNCHANGED clientVars

\* self.proc.wait(timeout=2) raises subprocess.TimeoutExpired: the process
\* is still there after two seconds
CloseExpired ==
    /\ cl.pc = "wait" /\ srv = "running"
    /\ cl' = [cl EXCEPT !.pc = "kill", !.grace = "expired"]
    /\ UNCHANGED <<cat, txn>>
    /\ UNCHANGED pipeVars
    /\ UNCHANGED serverVars
    /\ UNCHANGED clientVars

\* except subprocess.TimeoutExpired: self.proc.kill()
CloseKill ==
    /\ cl.pc = "kill"
    /\ \E d \in Delivered :
          cl' = [cl EXCEPT !.pc = "clear",
                           !.sent = IF d THEN Append(@, "SIGKILL") ELSE @]
    /\ srv' = IF srv = "running" THEN "killed" ELSE srv
    /\ UNCHANGED <<cat, txn>>
    /\ UNCHANGED <<store, clock, hist>>
    /\ UNCHANGED pipeVars
    /\ UNCHANGED clientVars

\* self.proc = None
CloseClear ==
    /\ cl.pc = "clear"
    /\ cl' = [cl EXCEPT !.pc = "closed"]
    /\ UNCHANGED <<cat, txn>>
    /\ UNCHANGED pipeVars
    /\ UNCHANGED serverVars
    /\ UNCHANGED clientVars

\* call_tool on the closed client:  self.proc.stdin  with proc None raises
\* AttributeError before anything is minted or written
CallClosed(t) ==
    /\ t \in callers /\ pc[t] = "idle" /\ ncalls < MaxCalls
    /\ cl.pc = "closed"
    /\ outcome' = [outcome EXCEPT ![t] =
                      [kind |-> "raised", msg |-> "AttributeError", value |-> NullValue]]
    /\ ncalls' = ncalls + 1
    /\ UNCHANGED <<next_id, lock, callers, pc, request, loaded, req_id,
                   discarded, minted>>
    /\ UNCHANGED pipeVars
    /\ UNCHANGED serverVars
    /\ UNCHANGED restVars

NextClose == \/ \E t \in Threads : Call(t)
             \/ \E t \in Threads : Acquire(t)
             \/ \E t \in Threads : MintId(t)
             \/ \E t \in Threads : WriteRequest(t)
             \/ \E t \in Threads : ReadSkip(t)
             \/ \E t \in Threads : ReadResult(t)
             \/ \E t \in Threads : ReadError(t)
             \/ ServeNotFound
             \/ ServeCall
             \/ ServerDies
             \/ \E t \in Threads : WriteBroken(t)
             \/ \E t \in Threads : ReadEOF(t)
             \/ ClosePoll
             \/ CloseTerminate
             \/ CloseExited
             \/ CloseExpired
             \/ CloseKill
             \/ CloseClear
             \/ \E t \in Threads : CallClosed(t)

SpecClose == InitLife /\ [][NextClose]_vars

\* ------------------------------------------------------------------------
\* Properties
\* ------------------------------------------------------------------------
RECURSIVE AllOut(_)
AllOut(h) == IF h = << >> THEN << >>
             ELSE AllOut(SubSeq(h, 1, Len(h) - 1)) \o h[Len(h)].out

\* Every response line the server has written, in order
Written == Responses(AllOut(hist))

\* What call_tool is to do with a response: return its result or raise
\* its error's message
OutcomeOf(r) ==
    IF "error" \in r.has THEN [kind |-> "raised", msg |-> r.message, value |-> NullValue]
    ELSE [kind |-> "returned", msg |-> "", value |-> r.result]

Completed(t) == pc[t] = "idle" /\ outcome[t].kind # "none"

AnsweredOnce(h) ==
    /\ Len(Responses(h.out)) = 1
    /\ h.out[Len(h.out)].kind = "response"
    /\ h.out[Len(h.out)].id = h.line.id

C1_Safety ==
    /\ \A i \in DOMAIN hist :
          (hist[i].line.kind = "request" /\ hist[i].line.method \in tool_map)
             => AnsweredOnce(hist[i])
    /\ \A t \in callers :
          (Completed(t) /\ request[t].name \in tool_map) =>
             /\ Cardinality({ i \in DOMAIN Written : Written[i].id = req_id[t] }) = 1
             /\ \A i \in DOMAIN Written :
                   Written[i].id = req_id[t] => outcome[t] = OutcomeOf(Written[i])
             /\ stdin = << >>
             /\ stdout = << >>

\* C1 (round trip): with a single caller issuing call_tool calls one at a
\* time, every request naming a method of the dispatch table is answered by
\* exactly one response line bearing the request's id, call_tool completes
\* on that line (and does complete), and after the call no request is
\* pending on stdin and no line is left unread on stdout.
C1_RoundTrip ==
    /\ [](callers = {1} => C1_Safety)
    /\ \A t \in Threads :
          (callers = {1} /\ pc[t] = "read" /\ request[t].name \in tool_map)
             ~> Completed(t)

C1_Witness ==
    /\ callers = {1} /\ ncalls = 2 /\ Completed(1)
    /\ request[1].name \in tool_map
    /\ Len(Written) = 2 /\ stdout = << >>

\* C2 (correlation under interleaving): a call_tool invocation ends with the
\* result or error of the response bearing its own id, and every response
\* line it read and skipped on the way bore another id.
C2_Correlation ==
    \A t \in Threads :
       Completed(t) =>
          /\ \E i \in DOMAIN Written :
                Written[i].id = req_id[t] /\ outcome[t] = OutcomeOf(Written[i])
          /\ \A d \in discarded :
                (d.by = t /\ d.awaited = req_id[t]) => d.line.id # req_id[t]

\* a caller that awaited A was delivered B's response first, skipped it and
\* returned A's result, which differs from B's
C2_Witness ==
    \E t \in Threads, d \in discarded :
       /\ d.by = t /\ d.awaited = req_id[t] /\ Completed(t)
       /\ outcome[t].kind = "returned"
       /\ OutcomeOf(d.line) # outcome[t]

\* C3 (concurrent callers): each call ends with the payload of the response
\* bearing its own id, and a response line read and discarded by one caller
\* is never the response another caller is still waiting for.
C3_NoLostResponse ==
    /\ \A t \in Threads :
          Completed(t) =>
             \E i \in DOMAIN Written :
                Written[i].id = req_id[t] /\ outcome[t] = OutcomeOf(Written[i])
    /\ \A d \in discarded : \A u \in Threads :
          ~ (u # d.by /\ pc[u] = "read" /\ req_id[u] = d.line.id)

\* C4 (identifier minting): the identifiers minted are positive, start at 1
\* and strictly increase in the order in which the lock was taken, so no two
\* invocations hold the same identifier.
C4_IdentifierMinting ==
    /\ \A i \in DOMAIN minted : minted[i] > 0
    /\ minted # << >> => minted[1] = 1
    /\ \A i, j \in DOMAIN minted : i < j => minted[i] < minted[j]
    /\ \A t, u \in Threads :
          (t # u /\ pc[t] \in {"write", "read"} /\ pc[u] \in {"write", "read"})
             => req_id[t] # req_id[u]

C4_Witness ==
    /\ callers = Threads /\ Len(minted) >= 2
    /\ pc[1] \in {"write", "read"} /\ pc[2] \in {"write", "read"}

IsRequest(l) == l.kind = "request"
Known(l)     == IsRequest(l) /\ l.method \in tool_map

\* The tool call of iteration h looked a customer up by id and found none
MissingRecord(h) ==
    /\ h.line.method \in {"get_customer", "update_customer_email"}
    /\ h.line.params.customer_id \notin DOMAIN h.before.customers

FailureEnvelope(v) ==
    /\ v.keys = {"success", "error"} /\ v.success = FALSE /\ v.error # ""

\* C5 (two-layer error model): for every method of the dispatch table, a
\* storage fault or a missing record during the call is reported as a
\* successful RPC response whose result is {"success": false, "error": ...},
\* never as an error object.
C5_TwoLayerErrors ==
    \A i \in DOMAIN hist :
       ( /\ Known(hist[i].line)
         /\ BindError(hist[i].line.method, hist[i].line.params) = ""
         /\ (hist[i].fault # 0 \/ MissingRecord(hist[i])) )
       => /\ Len(Responses(hist[i].out)) = 1
          /\ Responses(hist[i].out)[1].has = {"result"}
          /\ FailureEnvelope(Responses(hist[i].out)[1].result)

\* C6 (catalog dispatch): a request naming any method of the catalog table
\* is never answered with error code -32601.
C6_CatalogDispatched ==
    \A i \in DOMAIN hist :
       (IsRequest(hist[i].line) /\ hist[i].line.method \in CatalogMethods)
       => \A k \in DOMAIN hist[i].out : hist[i].out[k].code # MethodNotFound

\* C7 (typed get_customer): MCPDataClient.get_customer(customer_id, None)
\* returns the server's get_customer result envelope and does not raise.
C7_GetCustomerReturns ==
    \A t \in Threads :
       (Completed(t) /\ request[t] = MCPDataClient_get_customer(1, "None"))
       => /\ outcome[t].kind = "returned"
          /\ "success" \in outcome[t].value.keys

\* C8 (unknown method): a request whose method is a name outside the
\* dispatch table, or that has no method field, is answered with exactly one
\* line, the error -32601 "Method not found" bearing the request's id, and
\* the store is as it was (no tool ran, nothing was logged).
C8_UnknownMethod ==
    \A i \in DOMAIN hist :
       ( /\ IsRequest(hist[i].line)
         /\ hist[i].line.method \notin tool_map
         /\ hist[i].line.method # "<unhashable>" )
       => /\ hist[i].out = << ErrorResponse(hist[i].line.id, MethodNotFound,
                                            "Method not found") >>
          /\ hist[i].after = hist[i].before

C8_Witness ==
    \E i, j \in DOMAIN hist :
       /\ hist[i].line = Request(7, "does_not_exist", P0)
       /\ hist[j].line = Request(NoId, "<none>", P0)
       /\ Len(Responses(stdout)) = 2

\* The message of the exception a known method raises in iteration h, ""
\* when its invocation does not fault
FaultMessage(h) ==
    IF BindError(h.line.method, h.line.params) # ""
    THEN BindError(h.line.method, h.line.params)
    ELSE IF h.line.method = "health_check"
    THEN "module 'db_tools' has no attribute 'health_check'"
    ELSE IF h.line.method = "create_ticket" /\ h.fault = 1
    THEN "unable to open database file"
    ELSE ""

\* C9 (server error): a request naming a known method whose invocation
\* faults is answered with exactly one line, the error -32000 carrying the
\* fault's message and the request's id, and the loop is still running for
\* the lines that follow.
C9_ServerError ==
    /\ \A i \in DOMAIN hist :
          (Known(hist[i].line) /\ FaultMessage(hist[i]) # "")
          => hist[i].out = << ErrorResponse(hist[i].line.id, ServerError,
                                            FaultMessage(hist[i])) >>
    /\ ( /\ hist # << >>
         /\ Known(hist[Len(hist)].line)
         /\ FaultMessage(hist[Len(hist)]) # ""
         /\ stdin # << >> ) => srv = "running"

\* a faulting invocation was answered and the next line was served
C9_Witness ==
    \E i \in DOMAIN hist :
       /\ i < Len(hist)
       /\ Known(hist[i].line) /\ FaultMessage(hist[i]) # ""
       /\ hist[i].line.params.shape = "nonmap"
       /\ Known(hist[i + 1].line)
       /\ hist[i + 1].out # << >>
       /\ hist[i + 1].out[Len(hist[i + 1].out)].has = {"result"}

\* A line that parses as a request object whose method is a string or absent
WellFormedRequest(l) == IsRequest(l) /\ l.method # "<unhashable>"

\* C10 (malformed line): a line that is not parseable JSON produces no
\* output line and leaves the store as it was, the loop is still running for
\* the next line, and the number of responses written equals the number of
\* well-formed request lines read.
C10_MalformedSkipped ==
    /\ \A i \in DOMAIN hist :
          hist[i].line.kind = "malformed"
          => hist[i].out = << >> /\ hist[i].after = hist[i].before
    /\ ( /\ hist # << >>
         /\ hist[Len(hist)].line.kind = "malformed"
         /\ stdin # << >> ) => srv = "running"
    /\ Len(Responses(stdout)) =
          Cardinality({ i \in DOMAIN hist : WellFormedRequest(hist[i].line) })

\* a malformed line was skipped and the request after it was answered
C10_Witness ==
    \E i \in DOMAIN hist :
       /\ i < Len(hist)
       /\ hist[i].line.kind = "malformed"
       /\ Known(hist[i + 1].line)
       /\ Len(Responses(stdout)) = 1
       /\ stdout[Len(stdout)].has = {"result"}

\* C11 (response envelope): every response line the server writes bears the
\* id of the request it answers and exactly one of the fields result and
\* error; an error has code -32601 or -32000.
C11_ResponseEnvelope ==
    \A i \in DOMAIN hist : \A k \in DOMAIN hist[i].out :
       IsResponse(hist[i].out[k]) =>
          /\ hist[i].out[k].id = hist[i].line.id
          /\ hist[i].out[k].has \in { {"result"}, {"error"} }
          /\ "error" \in hist[i].out[k].has
                => hist[i].out[k].code \in {MethodNotFound, ServerError}

\* an error response and a result response were written, for different ids
C11_Witness ==
    \E i, j \in DOMAIN hist :
       /\ hist[i].out # << >> /\ hist[j].out # << >>
       /\ hist[i].out[Len(hist[i].out)].has = {"error"}
       /\ hist[i].out[Len(hist[i].out)].code = ServerError
       /\ hist[j].out[Len(hist[j].out)].has = {"result"}
       /\ hist[i].line.id # hist[j].line.id

\* C14 (create_ticket over the transport): a create_ticket request that
\* binds and meets no storage fault is answered with a result that is the
\* envelope {"success": true, "ticket": <the created record>}.
C14_CreateTicketEnvelope ==
    \A i \in DOMAIN hist :
       ( /\ IsRequest(hist[i].line)
         /\ hist[i].line.method = "create_ticket"
         /\ BindError("create_ticket", hist[i].line.params) = ""
         /\ hist[i].fault = 0 )
       => /\ Len(Responses(hist[i].out)) = 1
          /\ Responses(hist[i].out)[1].has = {"result"}
          /\ Responses(hist[i].out)[1].result.keys = {"success", "ticket"}
          /\ Responses(hist[i].out)[1].result.success = TRUE

\* The number of request lines bearing id that were written to the server's
\* stdin, read by the loop already or not
RequestLines(id) ==
    Cardinality({ i \in DOMAIN hist : IsRequest(hist[i].line) /\ hist[i].line.id = id })
    + Cardinality({ i \in DOMAIN stdin : IsRequest(stdin[i]) /\ stdin[i].id = id })

\* C16 (RPC error): when the awaited response carries an error, call_tool
\* raises an error with that error's message and returns no result; every
\* invocation has written exactly one request line.
C16_ErrorRaised ==
    \A t \in Threads :
       /\ (pc[t] = "read" \/ Completed(t)) => RequestLines(req_id[t]) = 1
       /\ Completed(t) =>
             \A i \in DOMAIN Written :
                (Written[i].id = req_id[t] /\ "error" \in Written[i].has)
                   => outcome[t] = [kind |-> "raised", msg |-> Written[i].message,
                                    value |-> NullValue]

\* a call ended by raising the message of its -32000 response
C16_Witness ==
    \E t \in Threads : \E i \in DOMAIN Written :
       /\ Completed(t) /\ Written[i].id = req_id[t]
       /\ Written[i].has = {"error"} /\ Written[i].code = ServerError
       /\ outcome[t].kind = "raised" /\ outcome[t].msg = Written[i].message
       /\ outcome[t].msg # ""
       /\ RequestLines(req_id[t]) = 1

\* C17 (end of stream): once stdin is closed the server loop terminates, and
\* when it has ended on end of stream every line written to stdin was read
\* and every well-formed request among them has its response on stdout.
C17_Drained ==
    srv = "exited" =>
       /\ stdinClosed /\ stdin = << >> /\ Len(hist) = fed
       /\ \A i \in DOMAIN hist :
             WellFormedRequest(hist[i].line) => AnsweredOnce(hist[i])
       /\ Len(Responses(stdout)) =
             Cardinality({ i \in DOMAIN hist : WellFormedRequest(hist[i].line) })

C17_TerminatesOnEOF ==
    /\ [] C17_Drained
    /\ stdinClosed ~> (srv # "running")

\* the loop ended on end of stream after answering two requests, one of
\* them with an error
C17_Witness ==
    /\ srv = "exited" /\ Len(hist) = 2
    /\ WellFormedRequest(hist[1].line) /\ WellFormedRequest(hist[2].line)
    /\ hist[1].out[Len(hist[1].out)].has = {"error"}
    /\ Len(Responses(stdout)) = 2

\* C12 (not found): get_customer for an id no customer has returns
\* {"success": false, "error": ...}, whatever the store holds and whether or
\* not it is reachable; it does not raise, does not report success and
\* leaves the store as it was.
C12_NotFound ==
    ( /\ cat.op = "get_customer"
      /\ cat.args.customer_id \notin DOMAIN cat.before.customers )
    => /\ ~ cat.raised
       /\ FailureEnvelope(cat.result)
       /\ cat.result.rows = << >>
       /\ cat.after = cat.before

\* get_customer(9) on a reachable store that a ticket was added to
C12_Witness ==
    /\ cat.op = "get_customer" /\ cat.args.customer_id = 9 /\ cat.fault = 0
    /\ Len(cat.before.tickets) = 2
    /\ cat.result.error = "Customer not found."

\* The payload key of each catalog operation
PayloadKey(op) ==
    CASE op \in {"get_customer", "update_customer_email"} -> "customer"
      [] op \in {"list_customers", "list_active_customers", "list_premium_customers",
                 "list_active_customers_with_open_tickets"} -> "customers"
      [] op = "create_ticket" -> "ticket"
      [] OTHER -> "tickets"

\* C13 (result envelope): every catalog operation of db_tools returns, for
\* every input and also when the store is unreachable, a mapping with a
\* boolean success; with success=true it has the operation's payload key and
\* no error key, with success=false an error string and no payload key.
C13_ResultEnvelope ==
    cat.op \in CatalogMethods =>
       /\ ~ cat.raised
       /\ cat.result.success \in BOOLEAN
       /\ cat.result.success =>
             /\ cat.result.keys = {"success", PayloadKey(cat.op)}
             /\ PayloadKey(cat.op) \in {"customer", "ticket"} => Len(cat.result.rows) = 1
       /\ ~ cat.result.success => FailureEnvelope(cat.result)

\* update_customer_email whose read-back met an unreachable store: the
\* update is committed and the failure envelope returned
C13_Witness ==
    /\ cat.op = "update_customer_email" /\ cat.fault = 2
    /\ cat.after # cat.before
    /\ FailureEnvelope(cat.result)

\* The customers of st that are active and own a ticket that is not resolved
ActiveWithOpen(st) ==
    { c \in DOMAIN st.customers :
        /\ st.customers[c].status = "active"
        /\ \E k \in DOMAIN st.tickets :
              st.tickets[k].customer_id = c /\ st.tickets[k].status # "resolved" }

\* C18 (active customers with open tickets): on a reachable store the
\* operation returns a customer exactly if its status is "active" and it
\* owns at least one ticket whose status is not "resolved", each such
\* customer once, in ascending order of id.
C18_ActiveWithOpenTickets ==
    ( cat.op = "list_active_customers_with_open_tickets" /\ cat.fault = 0 )
    => /\ cat.result.success
       /\ { cat.result.rows[i].id : i \in DOMAIN cat.result.rows } = ActiveWithOpen(cat.before)
       /\ \A i \in DOMAIN cat.result.rows :
             cat.result.rows[i] = cat.before.customers[cat.result.rows[i].id]
       /\ \A i, j \in DOMAIN cat.result.rows :
             i < j => cat.result.rows[i].id < cat.result.rows[j].id

\* customer 1 owns two open tickets and is returned once
C18_Witness ==
    /\ cat.op = "list_active_customers_with_open_tickets" /\ cat.fault = 0
    /\ Cardinality({ k \in DOMAIN cat.before.tickets :
                       /\ cat.before.tickets[k].customer_id = 1
                       /\ cat.before.tickets[k].status # "resolved" }) = 2
    /\ Len(cat.result.rows) = 1
    /\ cat.result.rows[1].id = 1

\* C19 (list_customers): with a non-empty status s and a limit n >= 0 the
\* operation returns at most n customers of the store, each with status s,
\* no customer twice, ordered by creation time, newest first.
C19_ListCustomers ==
    ( /\ cat.op = "list_customers" /\ cat.fault = 0
      /\ cat.args.status \notin {"None", ""} /\ cat.args.limit >= 0 )
    => /\ cat.result.success
       /\ Len(cat.result.rows) <= cat.args.limit
       /\ \A i \in DOMAIN cat.result.rows :
             /\ cat.result.rows[i].status = cat.args.status
             /\ cat.result.rows[i] \in CustomerRows(cat.before)
       /\ \A i, j \in DOMAIN cat.result.rows :
             i < j => /\ cat.result.rows[i].created_at >= cat.result.rows[j].created_at
                      /\ cat.result.rows[i].id # cat.result.rows[j].id

\* two customers are active and limit 1 returns the newer one only
C19_Witness ==
    /\ cat.op = "list_customers" /\ cat.fault = 0
    /\ cat.args.status = "active" /\ cat.args.limit = 1
    /\ Cardinality({ r \in CustomerRows(cat.before) : r.status = "active" }) = 2
    /\ Len(cat.result.rows) = 1
    /\ cat.result.rows[1].id = 2

\* A customer record, and a store, without the update timestamps
SansStamp(r) == [f \in (DOMAIN r) \ {"updated_at"} |-> r[f]]
StoreSansStamp(st) ==
    [st EXCEPT !.customers = [c \in DOMAIN st.customers |-> SansStamp(st.customers[c])]]

\* C20 (idempotent update): update_customer_email made twice in a row with
\* the same value for an existing customer, the store reachable both times,
\* returns the same record both times and leaves the store after the second
\* call equal to the store after the first, the update timestamp excepted.
C20_IdempotentUpdate ==
    ( /\ cat.op = "update_customer_email" /\ cat.prev.op = "update_customer_email"
      /\ cat.args = cat.prev.args
      /\ cat.args.customer_id \in DOMAIN cat.before.customers
      /\ cat.fault = 0 /\ cat.prev.result.success )
    => /\ cat.result.success
       /\ SansStamp(cat.result.rows[1]) = SansStamp(cat.prev.result.rows[1])
       /\ cat.result.rows[1].email = cat.args.new_email
       /\ StoreSansStamp(cat.after) = StoreSansStamp(cat.prev.after)

\* the second call was made at a later time: the two records differ, in the
\* update timestamp
C20_Witness ==
    /\ cat.op = "update_customer_email" /\ cat.prev.op = "update_customer_email"
    /\ cat.args = cat.prev.args /\ cat.args.new_email = "new@x"
    /\ cat.fault = 0 /\ cat.prev.result.success /\ cat.result.success
    /\ cat.result.rows[1] # cat.prev.result.rows[1]
    /\ cat.after # cat.prev.after

\* C15 (end of the response stream): a call whose request line was written
\* and for whose id the server wrote no response before the stream ended
\* fails with the "terminated" error, having written exactly one request
\* line; and a caller waiting on a stream that has ended does not wait for
\* ever.
C15_Failed ==
    \A t \in Threads :
       ( /\ Completed(t) /\ RequestLines(req_id[t]) >= 1
         /\ \A i \in DOMAIN Written : Written[i].id # req_id[t] )
       => /\ outcome[t] = [kind |-> "raised", msg |-> Terminated, value |-> NullValue]
          /\ RequestLines(req_id[t]) = 1

C15_EndOfStream ==
    /\ [] C15_Failed
    /\ \A t \in Threads : (pc[t] = "read" /\ srv # "running") ~> (pc[t] = "idle")

\* the server ended while the caller's request was unanswered: the call
\* failed with the "terminated" error after one request line
C15_Witness ==
    \E t \in Threads :
       /\ Completed(t) /\ srv = "killed"
       /\ RequestLines(req_id[t]) = 1
       /\ \A i \in DOMAIN Written : Written[i].id # req_id[t]
       /\ outcome[t].kind = "raised" /\ outcome[t].msg = Terminated

\* The iterations of the loop that read a well-formed request, in order
Answerable(h) == WellFormedRequest(h.line)
Served == SelectSeq(hist, Answerable)

\* C30 (one at a time, in arrival order): the k-th response line on stdout
\* is the response written for the k-th well-formed request line read, the
\* output is the outputs of the iterations in the order of reading, and each
\* iteration starts from the store its predecessor left behind.
C30_InOrder ==
    /\ stdout = AllOut(hist)
    /\ Len(Responses(stdout)) = Len(Served)
    /\ \A k \in DOMAIN Served :
          /\ Responses(stdout)[k] = Served[k].out[Len(Served[k].out)]
          /\ Responses(stdout)[k].id = Served[k].line.id
    /\ \A i \in DOMAIN hist :
          /\ hist[i].before = (IF i = 1 THEN SeedStore ELSE hist[i - 1].after)
          /\ i = Len(hist) => store = hist[i].after

\* two requests with different ids were served, the first changed the store
\* and the second ran on the changed store; the responses bear the two ids
\* in the order of the requests
C30_Witness ==
    /\ Len(hist) = 2 /\ Len(Served) = 2
    /\ hist[1].line.id # hist[2].line.id
    /\ hist[1].after # hist[1].before
    /\ hist[2].before = hist[1].after
    /\ Responses(stdout)[1].id = hist[1].line.id
    /\ Responses(stdout)[2].id = hist[2].line.id

\* p comes before q in descending order of the priority strings
PriorityAbove(p, q) ==
    \/ p = "medium" /\ q \in {"low", "high"}
    \/ p = "low" /\ q = "high"

\* C26 (list_open_tickets): the operation returns exactly the tickets whose
\* status is not "resolved", each once, ordered by the priority string
\* descending ("medium" before "low" before "high") and by creation time
\* descending among equal priorities.
C26_ListOpenTickets ==
    ( cat.op = "list_open_tickets" /\ cat.fault = 0 )
    => /\ cat.result.success
       /\ Range(cat.result.rows) =
             { t \in Range(cat.before.tickets) : t.status # "resolved" }
       /\ \A i, j \in DOMAIN cat.result.rows :
             i < j =>
                /\ cat.result.rows[i].id # cat.result.rows[j].id
                /\ \/ PriorityAbove(cat.result.rows[i].priority, cat.result.rows[j].priority)
                   \/ /\ cat.result.rows[i].priority = cat.result.rows[j].priority
                      /\ cat.result.rows[i].created_at >= cat.result.rows[j].created_at

\* a medium ticket is listed before an older or equally old high ticket
C26_Witness ==
    /\ cat.op = "list_open_tickets" /\ cat.fault = 0
    /\ Len(cat.result.rows) = 2
    /\ cat.result.rows[1].priority = "medium"
    /\ cat.result.rows[2].priority = "high"
    /\ Len(cat.before.tickets) = 2

\* C27 (alias): on every store and for every customer id,
\* customer_ticket_history returns what get_customer_history returns on that
\* store (and the other way round), and neither changes the store.
C27_Alias ==
    /\ cat.op = "customer_ticket_history" =>
          /\ Ret(cat.result, cat.after) \in
                db_tools_get_customer_history(cat.before, cat.args.customer_id, cat.fault)
          /\ ~ cat.raised /\ cat.after = cat.before
    /\ cat.op = "get_customer_history" =>
          /\ Ret(cat.result, cat.after) \in
                db_tools_customer_ticket_history(cat.before, cat.args.customer_id, cat.fault)
          /\ ~ cat.raised /\ cat.after = cat.before

\* the alias returned the two tickets of customer 1
C27_Witness ==
    /\ cat.op = "customer_ticket_history" /\ cat.fault = 0
    /\ cat.args.customer_id = 1
    /\ Len(cat.result.rows) = 2

\* C24 (high-priority tickets): a high_priority_tickets_for_customers
\* request whose params give a list of ids, an empty list or no ids at all
\* is answered, the store reachable, with exactly the tickets that are not
\* resolved and have priority "high", of the customers in ids when ids is
\* non-empty and of all customers otherwise.
C24_HighPriority ==
    \A i \in DOMAIN hist :
       ( /\ IsRequest(hist[i].line)
         /\ hist[i].line.method = "high_priority_tickets_for_customers"
         /\ hist[i].line.params.shape # "nonmap"
         /\ hist[i].line.params.keys \subseteq {"customer_ids"}
         /\ hist[i].fault = 0 )
       => LET ids  == Arg(hist[i].line.params, "customer_ids", << >>)
              resp == Responses(hist[i].out)
          IN  /\ Len(resp) = 1
              /\ resp[1].has = {"result"}
              /\ resp[1].result.success
              /\ Range(resp[1].result.rows) =
                    { t \in Range(hist[i].before.tickets) :
                        /\ t.status # "resolved" /\ t.priority = "high"
                        /\ (ids # << >> => t.customer_id \in Range(ids)) }

\* C21 (update_customer): the call changes, of customer id, exactly the
\* fields among name, email, phone and status that occur in the mapping, and
\* sets the update timestamp to the time of the call; with no such field in
\* the mapping it changes nothing, the update timestamp included, and
\* returns the current record; no other customer and no ticket is changed.
C21_UpdateCustomer ==
    cat.op = "update_customer" =>
       LET id   == cat.args.customer_id
           data == cat.args.data
           upd  == (DOMAIN data) \cap {"name", "email", "phone", "status"}
       IN  /\ ~ cat.raised
           /\ cat.after.tickets = cat.before.tickets
           /\ DOMAIN cat.after.customers = DOMAIN cat.before.customers
           /\ \A c \in DOMAIN cat.before.customers :
                 c # id => cat.after.customers[c] = cat.before.customers[c]
           /\ id \notin DOMAIN cat.before.customers => cat.result = NullValue
           /\ id \in DOMAIN cat.before.customers =>
                 /\ cat.result = RowObject(cat.after.customers[id])
                 /\ upd = {} => cat.after = cat.before
                 /\ upd # {} =>
                       \A f \in DOMAIN cat.before.customers[id] :
                          cat.after.customers[id][f] =
                             IF f \in upd THEN data[f]
                             ELSE IF f = "updated_at" THEN clock
                             ELSE cat.before.customers[id][f]

\* status was updated from a mapping that also names created_at: the
\* status and the update timestamp changed, created_at did not
C21_Witness ==
    /\ cat.op = "update_customer"
    /\ DOMAIN cat.args.data = {"status", "created_at"}
    /\ cat.after.customers[2].status # cat.before.customers[2].status
    /\ cat.after.customers[2].updated_at # cat.before.customers[2].updated_at
    /\ cat.after.customers[2].created_at = cat.before.customers[2].created_at

\* C22 (create_ticket): the call appends exactly one ticket, with an
\* identifier no existing ticket has and the given customer id, issue,
\* priority and status, whether or not the customer exists; it returns that
\* ticket, changes no existing ticket and no customer, and every
\* get_customer_history of that customer made next contains the ticket.
C22_CreateTicket ==
    cat.op = "db.create_ticket" =>
       LET new == cat.after.tickets[Len(cat.after.tickets)]
       IN  /\ ~ cat.raised
           /\ cat.after.tickets = Append(cat.before.tickets, new)
           /\ \A k \in DOMAIN cat.before.tickets : cat.before.tickets[k].id # new.id
           /\ new.customer_id = cat.args.customer_id
           /\ new.issue = cat.args.issue
           /\ new.priority = cat.args.priority
           /\ new.status = cat.args.status
           /\ new.created_at = clock
           /\ cat.after.customers = cat.before.customers
           /\ cat.result = RowObject(new)
           /\ \A h \in db_get_customer_history(cat.after, cat.args.customer_id) :
                 new \in Range(h)

\* a ticket was created for customer 9, who does not exist
C22_Witness ==
    /\ cat.op = "db.create_ticket" /\ cat.args.customer_id = 9
    /\ 9 \notin DOMAIN cat.after.customers
    /\ Len(cat.after.tickets) = 2
    /\ cat.result.rows[1].id = 2

\* The issue texts of the model that contain billing, charge, payment or
\* invoice in some spelling
MentionsBilling(issue) == issue \in {IssueCharge, IssueUpper}

\* C23 (billing context): the operation returns exactly the tickets of the
\* given customer whose issue contains one of the keywords billing, charge,
\* payment, invoice in any letter case, each once.
C23_BillingContext ==
    ( cat.op = "billing_context_for_customer" /\ cat.fault = 0 )
    => /\ cat.result.success
       /\ Range(cat.result.rows) =
             { t \in Range(cat.before.tickets) :
                 t.customer_id = cat.args.customer_id /\ MentionsBilling(t.issue) }
       /\ \A i, j \in DOMAIN cat.result.rows :
             i < j => cat.result.rows[i].id # cat.result.rows[j].id

\* customer 1 has the ticket "dbl charge" and the ticket "Charge": both are
\* returned
C23_Witness ==
    /\ cat.op = "billing_context_for_customer" /\ cat.fault = 0
    /\ cat.args.customer_id = 1
    /\ { cat.result.rows[i].issue : i \in DOMAIN cat.result.rows } = {IssueCharge, IssueUpper}

\* C25 (premium customers): list_premium_customers returns exactly the
\* customers whose name contains "Premium" in this spelling; a name
\* containing only "premium" does not qualify.
C25_PremiumCaseSensitive ==
    ( cat.op = "list_premium_customers" /\ cat.fault = 0 )
    => /\ cat.result.success
       /\ { cat.result.rows[i].id : i \in DOMAIN cat.result.rows } =
             { c \in DOMAIN cat.before.customers :
                 cat.before.customers[c].name = NamePremium }

\* C28 (customer identity): whatever operations were made, the customers of
\* the store are those it started with, each under its identifier and with
\* its creation timestamp.
C28_CustomerIdentity ==
    /\ DOMAIN store.customers = DOMAIN SeedStore.customers
    /\ \A c \in DOMAIN store.customers :
          /\ store.customers[c].id = c
          /\ store.customers[c].created_at = SeedStore.customers[c].created_at

\* an update naming the column id was made on a store that has a ticket of
\* a customer who does not exist and an updated customer
C28_Witness ==
    /\ cat.op = "update_customer" /\ "id" \in DOMAIN cat.args.data
    /\ \E k \in DOMAIN store.tickets : store.tickets[k].customer_id = 9
    /\ store.customers # SeedStore.customers


\* C29: close() asks the process to terminate before anything else and
\* kills it only when the wait of two seconds timed out: the signals sent are
\* none, SIGTERM, or SIGTERM then SIGKILL; a process that ended within the
\* grace period is not killed; a process found ended by the poll is sent no
\* signal; a process still running when the wait starts has been sent SIGTERM
C29_Close ==
    /\ cl.sent \in { << >>, <<"SIGTERM">>, <<"SIGTERM", "SIGKILL">> }
    /\ "SIGKILL" \in Range(cl.sent) => cl.grace = "expired"
    /\ cl.grace = "exited" => "SIGKILL" \notin Range(cl.sent)
    /\ (cl.pc # "open" /\ ~cl.alive) => cl.sent = << >>
    /\ (cl.pc = "wait" /\ srv = "running") => cl.sent = <<"SIGTERM">>

\* close() ran to its end on a process that outlived the grace period
C29_Witness ==
    /\ cl.pc = "closed" /\ cl.sent = <<"SIGTERM", "SIGKILL">> /\ srv = "killed"
    /\ ncalls > 0

\* C31: no input line stops the server loop before end of stream: the loop
\* is running, or it ended on end of stream with every line taken; each line
\* taken was answered or skipped and left the loop running
C31_NoLineStopsLoop ==
    /\ srv \in {"running", "exited"}
    /\ srv = "exited" => stdinClosed /\ stdin = << >>

\* The messages of the answers -32601 and of a failed parameter binding
DispatchErrors ==
    { "Method not found", "argument after ** must be a mapping",
      "got an unexpected keyword argument", "missing required positional argument" }

\* C32: no call made through the wrappers list_customers, update_customer,
\* create_ticket and get_customer_history with valid arguments raises because
\* the method is not in the dispatch table or its parameters do not bind
C32_WrappersDispatch ==
    \A t \in Threads :
       (request[t] \in WrapperCalls /\ outcome[t].kind = "raised")
          => outcome[t].msg \notin DispatchErrors

\* C33: a successful update_customer_email(id, e) returns a record whose
\* email is e, whatever other processes do to the store meanwhile
C33_ReadBackOwnWrite ==
    (txn.pc = "returned" /\ txn.result.success)
       => txn.result.rows[1].email = txn.new_email

\* Every ticket of old is a ticket of new, at its place and unchanged
TicketsKept(old, new) ==
    /\ Len(old) <= Len(new)
    /\ \A k \in DOMAIN old : new[k] = old[k]

\* The last operation kept every ticket; it changed the tickets only if it
\* is create_ticket, which added one ticket, or none when it failed
C34_LastCall ==
    /\ TicketsKept(cat.before.tickets, cat.after.tickets)
    /\ cat.op # "create_ticket" => cat.after.tickets = cat.before.tickets
    /\ cat.op = "create_ticket" =>
          Len(cat.after.tickets) =
             Len(cat.before.tickets) + (IF cat.result.success THEN 1 ELSE 0)

\* C34 (tickets are append-only): across any sequence of store and catalog
\* operations every ticket that existed still exists with all its fields
\* unchanged; only create_ticket changes the tickets, and each call that
\* succeeds adds exactly one
C34_AppendOnly ==
    /\ [] C34_LastCall
    /\ [][ /\ TicketsKept(store.tickets, store'.tickets)
           /\ Len(store'.tickets) <= Len(store.tickets) + 1 ]_vars

\* a ticket was created and an update of a customer ran after it
C34_Witness ==
    /\ Len(store.tickets) = 2 /\ store.tickets[1] = SeedStore.tickets[1]
    /\ cat.op = "db.update_customer"
    /\ cat.before.tickets = store.tickets

\* The operations of the catalog that only query the store
ReadOnlyOps ==
    { "get_customer", "list_customers", "list_active_customers",
      "list_premium_customers", "get_customer_history", "customer_ticket_history",
      "list_open_tickets", "open_tickets_for_customer",
      "high_priority_tickets_for_customers", "billing_context_for_customer",
      "list_active_customers_with_open_tickets" }

\* C35: a read-only operation leaves every customer and every ticket as it
\* was, whether it returns its rows or the failure envelope, and it does not
\* raise
C35_ReadOnly ==
    cat.op \in ReadOnlyOps =>
       /\ cat.after = cat.before
       /\ store = cat.before
       /\ ~ cat.raised

\* a read-only operation ended in the failure envelope on a store that holds
\* a ticket created earlier
C35_Witness ==
    /\ cat.op = "list_open_tickets" /\ cat.fault = 1
    /\ ~ cat.result.success /\ cat.result.error # ""
    /\ Len(store.tickets) = 2

\* C36: update_customer_email for an identifier no customer has returns the
\* failure envelope {"success": false, "error": ...} and leaves the store as
\* it was: no customer is added, no customer and no ticket is changed
C36_UnknownCustomer ==
    (cat.op = "update_customer_email"
        /\ cat.args.customer_id \notin DOMAIN cat.before.customers)
       => /\ ~ cat.raised
          /\ cat.result.keys = {"success", "error"}
          /\ ~ cat.result.success /\ cat.result.error # ""
          /\ cat.after = cat.before
          /\ store = cat.before

\* the update for customer 9 found no row: the envelope says so, on a store
\* that can be reached
C36_Witness ==
    /\ cat.op = "update_customer_email" /\ cat.args.customer_id = 9
    /\ cat.fault = 0
    /\ cat.result.error = "Customer not found or update failed."
    /\ DOMAIN store.customers = {1, 2}

\* C37: a health_check request read while the database is reachable is
\* answered with one response that carries a result and no error object
C37_HealthCheckResult ==
    \A i \in DOMAIN hist :
       ( /\ IsRequest(hist[i].line)
         /\ hist[i].line.method = "health_check"
         /\ BindError("health_check", hist[i].line.params) = ""
         /\ hist[i].fault = 0 )
       => /\ Len(Responses(hist[i].out)) = 1
          /\ Responses(hist[i].out)[1].has = {"result"}

\* The tickets of customer c in rows, in the order of rows
OfCustomer(rows, c) == SelectSeq(rows, LAMBDA t : t.customer_id = c)

\* C38: on every store and for every customer c, what
\* open_tickets_for_customer(c) returns is an answer of list_open_tickets()
\* on that store cut down to the tickets of c, in the same order; and every
\* answer of list_open_tickets(), cut down to the tickets of c, is an answer
\* of open_tickets_for_customer(c)
C38_OpenTicketsAgree ==
    /\ (cat.op = "open_tickets_for_customer" /\ cat.fault = 0) =>
          /\ cat.result.success
          /\ \E r \in db_tools_list_open_tickets(cat.before, 0) :
                cat.result.rows = OfCustomer(r.value.rows, cat.args.customer_id)
    /\ (cat.op = "list_open_tickets" /\ cat.fault = 0) =>
          \A c \in {1, 2, 9} :
             Ret(Ok("tickets", OfCustomer(cat.result.rows, c)), cat.before)
                \in db_tools_open_tickets_for_customer(cat.before, c, 0)

\* customer 1 has two open tickets among the open tickets of the store, and
\* open_tickets_for_customer returned both
C38_Witness ==
    /\ cat.op = "open_tickets_for_customer" /\ cat.fault = 0
    /\ cat.args.customer_id = 1
    /\ Len(cat.result.rows) = 2
    /\ cat.result.rows[1].priority # cat.result.rows[2].priority

NotAvailable == "MCP server process is not available."

\* C39: once close() has returned the client holds no process: nothing it
\* does afterwards writes to the server's stdin or sends a signal, and a
\* call_tool made then ends in the RuntimeError 'MCP server process is not
\* available.'
C39_ClosedClient ==
    [][ cl.pc = "closed" =>
          /\ stdin' = stdin /\ fed' = fed /\ next_id' = next_id
          /\ cl' = cl
          /\ \A t \in Threads :
                outcome'[t] # outcome[t] =>
                   outcome'[t] = [kind |-> "raised", msg |-> NotAvailable,
                                  value |-> NullValue] ]_vars

====
